---- MODULE Spec2Model ----
(***************************************************************************)
(* Record / redact / replay harness of internal/testutil:                  *)
(*   capture.go     RecordingTransport (capture)                           *)
(*   redact.go      RedactSimulation   (redaction)                         *)
(*   simulation.go  Save/LoadSimulation, SimulationServer (replay)         *)
(*                                                                         *)
(* Byte strings are sequences of symbols.  A symbol is one JSON / XML      *)
(* punctuation character, one whitespace run, or an indivisible run of     *)
(* other characters ("GET", "take", "acme.tpondemand.com").                *)
(***************************************************************************)
EXTENDS Integers, Sequences, FiniteSets, TLC

VARIABLES
    pc,         \* position of the capture tool: capture, built, redacted, saved, loaded
    rtPairs,    \* RecordingTransport.Pairs; after BuildSimulation also sim.Pairs
    exchanges,  \* the exchanges the Base transport answered (history of the run)
    failures,   \* number of RoundTrip calls that returned an error
    rtCall,     \* the last RoundTrip call: what Base was given, answered, and what was returned
    counters,   \* entityNameCounters.entities
    disk,       \* content of the fixture file, or NoFile
    saveErr,    \* SaveSimulation returned an error
    loaded,     \* the Simulation LoadSimulation returned, or NoSim
    replies,    \* what the replay server answered to the client's requests
    ssSim,      \* SimulationServer.sim
    mu,         \* SimulationServer.mu: 0 when free, else the holder
    requests,   \* SimulationServer.requests
    hpc,        \* per handler goroutine: its position in handler
    hreq,       \* per handler goroutine: the inbound request
    hidx,       \* per handler goroutine: index of the pair being scanned
    htmp,       \* per handler goroutine: the slice value read by append
    hresp,      \* per handler goroutine: what was written to the ResponseWriter
    rdpc,       \* the goroutine calling Requests(): its position
    snaps,      \* the slices Requests() returned so far
    rdRuns,     \* the RedactSimulation calls made: input, output, counters before and after
    dir,        \* the entries of a fixture directory
    combined,   \* what LoadSimulationsFromDir returned
    scIdx,      \* run(): index of the scenario the loop is at
    trace,      \* run(): the calls it made so far, per scenario
    held,       \* the slices Requests() returned, as the caller holds them now
    mText,      \* ResolveMentions: the text it is called on
    mAnswers,   \* what the instance answers to each GeneralUser query
    mSent,      \* the GeneralUser queries sent, in order
    mOut        \* what ResolveMentions returned

vars == <<pc, rtPairs, exchanges, failures, rtCall, counters, disk, saveErr, loaded, replies,
          ssSim, mu, requests, hpc, hreq, hidx, htmp, hresp, rdpc, snaps,
          rdRuns, dir, combined, scIdx, trace, held, mText, mAnswers, mSent, mOut>>

captureVars == <<pc, rtPairs, exchanges, failures, rtCall, counters, disk, saveErr, loaded, replies>>

serverVars == <<ssSim, mu, requests, hpc, hreq, hidx, htmp, hresp, rdpc, snaps>>

runVars == <<scIdx, trace>>

extraVars == <<held, mText, mAnswers, mSent, mOut>>

unitVars == <<rdRuns, dir, combined, runVars, extraVars>>

-----------------------------------------------------------------------------
(* Text helpers (package strings / bytes)                                  *)

\* strings.Contains / bytes.Contains on symbol sequences
Contains(s, sub) ==
    \E i \in 1..(Len(s) - Len(sub) + 1) : SubSeq(s, i, i + Len(sub) - 1) = sub

HasPrefixAt(s, i, sub) ==
    /\ i + Len(sub) - 1 <= Len(s)
    /\ SubSeq(s, i, i + Len(sub) - 1) = sub

RECURSIVE ReplaceAllFrom(_, _, _, _)
ReplaceAllFrom(s, i, old, new) ==
    IF i > Len(s) THEN <<>>
    ELSE IF HasPrefixAt(s, i, old)
         THEN new \o ReplaceAllFrom(s, i + Len(old), old, new)
         ELSE <<s[i]>> \o ReplaceAllFrom(s, i + 1, old, new)

\* strings.ReplaceAll, for a non-empty old
ReplaceAll(s, old, new) == ReplaceAllFrom(s, 1, old, new)

RECURSIVE Concat(_)
Concat(ss) == IF ss = <<>> THEN <<>> ELSE Head(ss) \o Concat(Tail(ss))

\* unicode.IsSpace on the symbols of the model
WhiteSpace == {" ", "  ", "\n"}

RECURSIVE SkipWS(_, _)
SkipWS(b, i) ==
    IF i <= Len(b) /\ b[i] \in WhiteSpace THEN SkipWS(b, i + 1) ELSE i

\* bytes.TrimSpace, leading part: the first symbol that is no white space
FirstNonSpace(b) == SkipWS(b, 1)

-----------------------------------------------------------------------------
(* encoding/json                                                           *)

\* the number literals of the model (status codes, ids, counts)
NumberAtoms == {"0", "1", "2", "3", "7", "200", "404", "500"}

\* what may follow a backslash inside a string, and the symbol it decodes to
EscapeOf == [e \in {"\"", "\\", "/", "n", "u003c", "u003e", "u0026"} |->
               CASE e = "\"" -> "\""
                 [] e = "\\" -> "\\"
                 [] e = "/" -> "/"
                 [] e = "n" -> "\n"
                 [] e = "u003c" -> "<"
                 [] e = "u003e" -> ">"
                 [] e = "u0026" -> "&"]

ParseFail == [ok |-> FALSE, v |-> [t |-> "null"], n |-> 0]

\* scans the string whose opening quote is at j - 1; acc is the decoded content
RECURSIVE ScanString(_, _, _)
ScanString(b, j, acc) ==
    IF j > Len(b) THEN ParseFail
    ELSE IF b[j] = "\"" THEN [ok |-> TRUE, v |-> [t |-> "str", s |-> acc], n |-> j + 1]
    ELSE IF b[j] = "\\"
         THEN IF j + 1 <= Len(b) /\ b[j + 1] \in DOMAIN EscapeOf
              THEN ScanString(b, j + 2, Append(acc, EscapeOf[b[j + 1]]))
              ELSE ParseFail
    ELSE IF b[j] = "\n" THEN ParseFail     \* raw control character in a string
    ELSE ScanString(b, j + 1, Append(acc, b[j]))

RECURSIVE ParseValue(_, _)
RECURSIVE ParseElements(_, _, _)
RECURSIVE ParseMembers(_, _, _)

\* after an element e: "," and the next element, or "]"
ElementsSep(b, e, k, acc) ==
    IF k > Len(b) THEN ParseFail
    ELSE IF b[k] = "," THEN ParseElements(b, k + 1, Append(acc, e.v))
    ELSE IF b[k] = "]" THEN [ok |-> TRUE, v |-> [t |-> "arr", a |-> Append(acc, e.v)], n |-> k + 1]
    ELSE ParseFail

ElementsStep(b, e, acc) ==
    IF e.ok THEN ElementsSep(b, e, SkipWS(b, e.n), acc) ELSE ParseFail

\* array elements; i is the position after "[" or after a ","
ParseElements(b, i, acc) == ElementsStep(b, ParseValue(b, i), acc)

\* storing into map[string]any: a repeated key overwrites the earlier one
Store(m, key, val) == [x \in DOMAIN m \cup {key} |-> IF x = key THEN val ELSE m[x]]

\* after a member: "," and the next member, or "}"
MembersSep(b, m, k) ==
    IF k > Len(b) THEN ParseFail
    ELSE IF b[k] = "," THEN ParseMembers(b, k + 1, m)
    ELSE IF b[k] = "}" THEN [ok |-> TRUE, v |-> [t |-> "obj", m |-> m], n |-> k + 1]
    ELSE ParseFail

MembersValue(b, m, key, val) ==
    IF val.ok THEN MembersSep(b, Store(m, key.v.s, val.v), SkipWS(b, val.n)) ELSE ParseFail

MembersColon(b, m, key, c) ==
    IF c <= Len(b) /\ b[c] = ":" THEN MembersValue(b, m, key, ParseValue(b, c + 1)) ELSE ParseFail

MembersKey(b, m, key) ==
    IF key.ok THEN MembersColon(b, m, key, SkipWS(b, key.n)) ELSE ParseFail

MembersStart(b, m, j) ==
    IF j <= Len(b) /\ b[j] = "\"" THEN MembersKey(b, m, ScanString(b, j + 1, <<>>)) ELSE ParseFail

\* object members; i is the position after "{" or after a ","
ParseMembers(b, i, m) == MembersStart(b, m, SkipWS(b, i))

\* "{" at j: the empty object, or its members
ObjectAt(b, j, k) ==
    IF k <= Len(b) /\ b[k] = "}"
    THEN [ok |-> TRUE, v |-> [t |-> "obj", m |-> <<>>], n |-> k + 1]
    ELSE ParseMembers(b, j + 1, <<>>)

\* "[" at j: the empty array, or its elements
ArrayAt(b, j, k) ==
    IF k <= Len(b) /\ b[k] = "]"
    THEN [ok |-> TRUE, v |-> [t |-> "arr", a |-> <<>>], n |-> k + 1]
    ELSE ParseElements(b, j + 1, <<>>)

ValueAt(b, j) ==
    IF j > Len(b) THEN ParseFail
    ELSE IF b[j] = "{" THEN ObjectAt(b, j, SkipWS(b, j + 1))
    ELSE IF b[j] = "[" THEN ArrayAt(b, j, SkipWS(b, j + 1))
    ELSE IF b[j] = "\"" THEN ScanString(b, j + 1, <<>>)
    ELSE IF b[j] \in NumberAtoms THEN [ok |-> TRUE, v |-> [t |-> "num", d |-> b[j]], n |-> j + 1]
    ELSE IF b[j] = "null" THEN [ok |-> TRUE, v |-> [t |-> "null"], n |-> j + 1]
    ELSE IF b[j] \in {"true", "false"}
         THEN [ok |-> TRUE, v |-> [t |-> "bool", b |-> (b[j] = "true")], n |-> j + 1]
    ELSE ParseFail

\* every node keeps the bytes it was read from (raw), which is what a
\* json.RawMessage field receives
WithRaw(b, j, r) ==
    IF r.ok
    THEN [ok |-> TRUE,
          v |-> [x \in DOMAIN r.v \cup {"raw"} |->
                    IF x = "raw" THEN SubSeq(b, j, r.n - 1) ELSE r.v[x]],
          n |-> r.n]
    ELSE ParseFail

ValueFrom(b, j) == WithRaw(b, j, ValueAt(b, j))

\* one JSON value starting at or after position i
ParseValue(b, i) == ValueFrom(b, SkipWS(b, i))

UnmarshalEnd(data, r) ==
    IF r.ok /\ SkipWS(data, r.n) > Len(data) THEN r ELSE ParseFail

\* json.Unmarshal(data, &v) with v of type any: the document must be exactly
\* one value, white space around it allowed
Unmarshal(data) == UnmarshalEnd(data, ParseValue(data, 1))

\* json.Valid
Valid(data) == Unmarshal(data).ok

StringOf(r) ==
    IF ~r.ok THEN [ok |-> FALSE, s |-> <<>>]
    ELSE IF r.v.t = "str" THEN [ok |-> TRUE, s |-> r.v.s]
    ELSE IF r.v.t = "null" THEN [ok |-> TRUE, s |-> <<>>]
    ELSE [ok |-> FALSE, s |-> <<>>]

\* json.Unmarshal(data, &s) with s a string: a string literal is decoded, null
\* leaves s untouched ("") and is no error, any other value is a type error
UnmarshalString(data) == StringOf(Unmarshal(data))

\* byte order of the symbols that occur in object keys (sort.Strings on map keys)
AtomOrder == <<"Content-Type", "Description", "Id", "Items", "Name", "Next", "ResourceType",
               "Value", "a", "b", "name", "resourceType", "select", "skip", "take", "where">>

AtomRank(a) ==
    IF \E i \in DOMAIN AtomOrder : AtomOrder[i] = a
    THEN CHOOSE i \in DOMAIN AtomOrder : AtomOrder[i] = a
    ELSE 0

RECURSIVE TextLess(_, _)
TextLess(x, y) ==
    IF y = <<>> THEN FALSE
    ELSE IF x = <<>> THEN TRUE
    ELSE IF Head(x) = Head(y) THEN TextLess(Tail(x), Tail(y))
    ELSE AtomRank(Head(x)) < AtomRank(Head(y))

\* the keys of a map in the order the encoder writes them
RECURSIVE SortedKeys(_)
SortedKeys(S) ==
    IF S = {} THEN <<>>
    ELSE LET k == CHOOSE x \in S : \A o \in S \ {x} : TextLess(x, o)
         IN  <<k>> \o SortedKeys(S \ {k})

\* the bytes the encoder writes for one symbol of a string (HTML escaping on)
EscapeAtom(a) ==
    CASE a = "\"" -> <<"\\", "\"">>
      [] a = "\\" -> <<"\\", "\\">>
      [] a = "\n" -> <<"\\", "n">>
      [] a = "<" -> <<"\\", "u003c">>
      [] a = ">" -> <<"\\", "u003e">>
      [] a = "&" -> <<"\\", "u0026">>
      [] OTHER -> <<a>>

RECURSIVE EscapeText(_)
EscapeText(s) == IF s = <<>> THEN <<>> ELSE EscapeAtom(Head(s)) \o EscapeText(Tail(s))

\* json.Marshal of a Go string
EncodeString(s) == <<"\"">> \o EscapeText(s) \o <<"\"">>

RECURSIVE MarshalValue(_)
RECURSIVE MarshalElements(_, _)
RECURSIVE MarshalMembers(_, _)

MarshalElements(a, i) ==
    IF i > Len(a) THEN <<>>
    ELSE (IF i > 1 THEN <<",">> ELSE <<>>) \o MarshalValue(a[i]) \o MarshalElements(a, i + 1)

MarshalMembers(m, keys) ==
    IF keys = <<>> THEN <<>>
    ELSE EncodeString(Head(keys)) \o <<":">> \o MarshalValue(m[Head(keys)])
         \o (IF Len(keys) > 1 THEN <<",">> ELSE <<>>) \o MarshalMembers(m, Tail(keys))

\* json.Marshal of a value of type any: compact, map keys sorted
MarshalValue(v) ==
    CASE v.t = "obj" -> <<"{">> \o MarshalMembers(v.m, SortedKeys(DOMAIN v.m)) \o <<"}">>
      [] v.t = "arr" -> <<"[">> \o MarshalElements(v.a, 1) \o <<"]">>
      [] v.t = "str" -> EncodeString(v.s)
      [] v.t = "num" -> <<v.d>>
      [] v.t = "bool" -> <<IF v.b THEN "true" ELSE "false">>
      [] OTHER -> <<"null">>

\* json.Marshal of a map[string]string
MarshalStringMap(m) ==
    <<"{">> \o MarshalMembers([k \in DOMAIN m |-> [t |-> "str", s |-> m[k]]], SortedKeys(DOMAIN m))
    \o <<"}">>

\* compact on valid input: white space outside strings dropped, "<", ">" and
\* "&" inside strings escaped
RECURSIVE CompactFrom(_, _, _)
CompactFrom(b, i, inStr) ==
    IF i > Len(b) THEN <<>>
    ELSE IF inStr
         THEN IF b[i] = "\\" THEN <<b[i], b[i + 1]>> \o CompactFrom(b, i + 2, TRUE)
              ELSE IF b[i] = "\"" THEN <<b[i]>> \o CompactFrom(b, i + 1, FALSE)
              ELSE IF b[i] \in {"<", ">", "&"} THEN EscapeAtom(b[i]) \o CompactFrom(b, i + 1, TRUE)
              ELSE <<b[i]>> \o CompactFrom(b, i + 1, TRUE)
         ELSE IF b[i] \in WhiteSpace THEN CompactFrom(b, i + 1, FALSE)
              ELSE <<b[i]>> \o CompactFrom(b, i + 1, b[i] = "\"")

\* what the encoder does with the bytes a json.RawMessage hands it
\* (RawMessage.MarshalJSON, then compact, which also validates)
MarshalRaw(raw) ==
    IF Valid(raw) THEN [ok |-> TRUE, out |-> CompactFrom(raw, 1, FALSE)]
    ELSE [ok |-> FALSE, out |-> <<>>]

RECURSIVE Newline(_)
Newline(depth) == IF depth = 0 THEN <<"\n">> ELSE Newline(depth - 1) \o <<"  ">>

\* json.Indent with prefix "" and indent "  ", on compact input
RECURSIVE IndentFrom(_, _, _, _, _)
IndentFrom(b, i, depth, needIndent, inStr) ==
    IF i > Len(b) THEN <<>>
    ELSE LET c == b[i]
             closing == ~inStr /\ c \in {"}", "]"}
             open == needIndent /\ ~closing
             d == IF open THEN depth + 1 ELSE depth
             pre == IF open THEN Newline(d) ELSE <<>>
         IN  pre \o
             (IF inStr
              THEN IF c = "\\" THEN <<c, b[i + 1]>> \o IndentFrom(b, i + 2, d, FALSE, TRUE)
                   ELSE <<c>> \o IndentFrom(b, i + 1, d, FALSE, c # "\"")
              ELSE IF c \in {"{", "["} THEN <<c>> \o IndentFrom(b, i + 1, d, TRUE, FALSE)
              ELSE IF c = "," THEN <<c>> \o Newline(d) \o IndentFrom(b, i + 1, d, FALSE, FALSE)
              ELSE IF c = ":" THEN <<c, " ">> \o IndentFrom(b, i + 1, d, FALSE, FALSE)
              ELSE IF closing
                   THEN IF needIndent THEN <<c>> \o IndentFrom(b, i + 1, d, FALSE, FALSE)
                        ELSE Newline(d - 1) \o <<c>> \o IndentFrom(b, i + 1, d - 1, FALSE, FALSE)
              ELSE <<c>> \o IndentFrom(b, i + 1, d, FALSE, c = "\""))

-----------------------------------------------------------------------------
(* net/url and net/http as the harness uses them                           *)
(* A request is [method, path, query]; query is the parsed RawQuery, the   *)
(* <<key, value>> parameters in the order they were written.               *)

QueryKeys(q) == {q[i][1] : i \in DOMAIN q}

\* url.Values[key][0]: the first value written for key
FirstValue(q, key) ==
    LET i == CHOOSE i \in DOMAIN q : q[i][1] = key /\ \A j \in 1..(i - 1) : q[j][1] # key
    IN  q[i][2]

\* url.Values.Get: the first value, "" when the parameter is absent
Get(q, key) == IF key \in QueryKeys(q) THEN FirstValue(q, key) ELSE <<>>

\* http.Header.Get on a header of canonical keys with one value each
HeaderGet(h, key) == IF key \in DOMAIN h THEN h[key] ELSE <<>>

RECURSIVE EncodeQuery(_, _)
EncodeQuery(q, i) ==
    IF i > Len(q) THEN <<>>
    ELSE (IF i > 1 THEN <<"&">> ELSE <<>>) \o q[i][1] \o <<"=">> \o q[i][2] \o EncodeQuery(q, i + 1)

\* r.URL.String() of a request the server received: path, "?" and RawQuery
URLString(r) ==
    r.path \o (IF r.query = <<>> THEN <<>> ELSE <<"?">> \o EncodeQuery(r.query, 1))

ContentType == <<"Content-Type">>

AccessToken == <<"access_token">>

Format == <<"format">>

-----------------------------------------------------------------------------
(* capture.go                                                              *)

\* isJSON: the trimmed body starts with "{" or "["
isJSON(data) ==
    LET i == FirstNonSpace(data)
    IN  i <= Len(data) /\ data[i] \in {"{", "["}

\* RoundTrip, lines 33-40: the query map without access_token and format
\* RoundTrip, lines 33-40, skipping access_token only
QueryMapKeepsFormat(q) ==
    [key \in QueryKeys(q) \ {AccessToken} |-> FirstValue(q, key)]

QueryMap(q) ==
    [key \in QueryKeys(q) \ {AccessToken, Format} |-> FirstValue(q, key)]

\* RoundTrip, lines 42-48: only Content-Type is kept
CapturedHeaders(header) ==
    [key \in DOMAIN header \cap {ContentType} |-> header[key]]

\* RoundTrip, lines 50-62: raw JSON, or the body as a JSON string
CapturedBody(header, respBody) ==
    IF Contains(HeaderGet(header, ContentType), <<"json">>) \/ isJSON(respBody)
    THEN respBody
    ELSE EncodeString(respBody)

\* RoundTrip, lines 64-75: the Pair appended for a request and its response
CapturedPair(req, resp) ==
    [description |-> <<>>,
     request |-> [method |-> req.method, path |-> req.path, query |-> QueryMap(req.query)],
     response |-> [status |-> resp.status,
                   headers |-> CapturedHeaders(resp.header),
                   body |-> CapturedBody(resp.header, resp.body)]]

\* an http.Response body: the bytes it delivers, how many were read, the
\* error a read ends with ("" for io.EOF), and whether it was closed
Stream(data, fail) == [data |-> data, pos |-> 0, fail |-> fail, closed |-> FALSE]

\* io.ReadAll: the bytes still unread, the error if the stream breaks
ReadAll(body) ==
    [bytes |-> SubSeq(body.data, body.pos + 1, Len(body.data)), err |-> body.fail]

\* RoundTrip, line 31: io.NopCloser(bytes.NewReader(respBody))
\* a reader over respBody that stands at its end
NewReaderAtEnd(respBody) ==
    [data |-> respBody, pos |-> Len(respBody), fail |-> "", closed |-> FALSE]

NewReader(respBody) == Stream(respBody, "")

\* return nil, err
NilResponse == [nil |-> TRUE]

\* what the Base transport returns: a response, or an error
Answer(resp, fail) ==
    [err |-> "", status |-> resp.status, header |-> resp.header, body |-> Stream(resp.body, fail)]

TransportError(err) == [err |-> err]

\* RoundTrip, line 64: rt.Pairs = append(rt.Pairs, Pair{...})
\* the pair put in front of rt.Pairs
PrependPair(pairs, pair) == <<pair>> \o pairs

AppendPair(pairs, pair) == Append(pairs, pair)

\* a RoundTrip that records what it has read before it looks at the read error
ReadResultKeepsPartial(pairs, req, out, rd) ==
    [pairs |-> AppendPair(pairs,
                   CapturedPair(req, [status |-> out.status, header |-> out.header,
                                      body |-> rd.bytes])),
     resp |-> IF rd.err # "" THEN NilResponse
              ELSE [nil |-> FALSE, status |-> out.status, header |-> out.header,
                    body |-> NewReader(rd.bytes)],
     err |-> rd.err]

\* RoundTrip, lines 26-77: after Base answered and the body was read
ReadResult(pairs, req, out, rd) ==
    IF rd.err # "" THEN [pairs |-> pairs, resp |-> NilResponse, err |-> rd.err]
    ELSE [pairs |-> AppendPair(pairs,
                        CapturedPair(req, [status |-> out.status, header |-> out.header,
                                           body |-> rd.bytes])),
          resp |-> [nil |-> FALSE, status |-> out.status, header |-> out.header,
                    body |-> NewReader(rd.bytes)],
          err |-> ""]

\* RoundTrip: the Pairs after the call and what the call returns
RoundTripResult(pairs, req, out) ==
    IF out.err # "" THEN [pairs |-> pairs, resp |-> NilResponse, err |-> out.err]
    ELSE ReadResult(pairs, req, out, ReadAll(out.body))

-----------------------------------------------------------------------------
(* redact.go                                                               *)

\* the RedactOptions tp-capture passes: DefaultRedactOptions(cfg.Domain)
RealDomain == <<"acme", ".tpondemand.com">>

ReplacementDomain == <<"test", ".tpondemand.com">>

\* cfg.Token, the secret the client sends as access_token
Token == <<"s3cr3t">>

replaceDomain(s) ==
    IF RealDomain = <<>> THEN s ELSE ReplaceAll(s, RealDomain, ReplacementDomain)

\* the symbols emailRegex matches
EmailAtoms == {"bob@corp.com", "testuser@example.com"}

RECURSIVE ReplaceEmails(_)
ReplaceEmails(s) ==
    IF s = <<>> THEN <<>>
    ELSE <<IF Head(s) \in EmailAtoms THEN "testuser@example.com" ELSE Head(s)>>
         \o ReplaceEmails(Tail(s))

redactString(s) == ReplaceEmails(replaceDomain(s))

\* position of the quote closing an attribute value that starts at i, 0 if none
RECURSIVE ClosingQuote(_, _)
ClosingQuote(s, i) ==
    IF i > Len(s) THEN 0 ELSE IF s[i] = "\"" THEN i ELSE ClosingQuote(s, i + 1)

\* descRegex.ReplaceAllString: every Description="[^"]*" becomes the literal
RECURSIVE RedactXMLFrom(_, _)
RedactXMLFrom(xml, i) ==
    IF i > Len(xml) THEN <<>>
    ELSE LET j == IF HasPrefixAt(xml, i, <<"Description", "=", "\"">>)
                  THEN ClosingQuote(xml, i + 3) ELSE 0
         IN  IF j > 0
             THEN <<"Description", "=", "\"", "Redacted description", "\"">> \o RedactXMLFrom(xml, j + 1)
             ELSE <<xml[i]>> \o RedactXMLFrom(xml, i + 1)

redactXMLContent(xml) == RedactXMLFrom(xml, 1)

sensitiveFieldPatterns ==
    [f \in {"Description", "Company", "Phone", "Tags", "CustomField1", "CustomField2",
            "CustomField3", "Login", "Email", "FirstName", "LastName", "FullName",
            "Icon", "AvatarUri"} |->
        CASE f = "Login" -> "login"
          [] f = "Email" -> "email"
          [] f = "FirstName" -> "firstname"
          [] f = "LastName" -> "lastname"
          [] f = "FullName" -> "fullname"
          [] f \in {"Icon", "AvatarUri"} -> "url"
          [] OTHER -> "text"]

applyRedactionStrategy(strategy, val) ==
    CASE strategy = "email" -> <<"testuser@example.com">>
      [] strategy = "login" -> <<"testuser">>
      [] strategy = "firstname" -> <<"Test">>
      [] strategy = "lastname" -> <<"User">>
      [] strategy = "fullname" -> <<"Test User">>
      [] strategy = "url" -> replaceDomain(val)
      [] strategy = "text" -> <<"Redacted text">>
      [] OTHER -> val

preserveTypes == {<<"EntityState">>, <<"EntityType">>, <<"Priority">>, <<"Role">>,
                  <<"Process">>, <<"Workflow">>}

\* a redaction without the allow-list
isEntityNameOfAnyType(resourceType) == TRUE

isEntityName(resourceType) == resourceType \notin preserveTypes

CounterOf(c, resourceType) == IF resourceType \in DOMAIN c THEN c[resourceType] ELSE 0

\* a redactEntityName that prints the next number and does not store it
redactEntityNameUncounted(resourceType, c) ==
    [v |-> [t |-> "str",
            s |-> <<"Test ">> \o (IF resourceType = <<>> THEN <<"Entity">> ELSE resourceType)
                  \o <<" ", ToString(CounterOf(c, IF resourceType = <<>> THEN <<"Entity">>
                                                   ELSE resourceType) + 1)>>],
     c |-> c]

\* redactEntityName: the counter of the type is incremented, then printed
redactEntityName(resourceType, c) ==
    LET rt == IF resourceType = <<>> THEN <<"Entity">> ELSE resourceType
        n == CounterOf(c, rt) + 1
    IN  [v |-> [t |-> "str", s |-> <<"Test ">> \o rt \o <<" ", ToString(n)>>],
         c |-> [x \in DOMAIN c \cup {rt} |-> IF x = rt THEN n ELSE c[x]]]

IsNonEmptyString(val) == val.t = "str" /\ val.s # <<>>

\* the resource type redactObject reads: ResourceType, else resourceType
ResourceTypeOf(m) ==
    IF <<"ResourceType">> \in DOMAIN m /\ m[<<"ResourceType">>].t = "str"
    THEN m[<<"ResourceType">>].s
    ELSE IF <<"resourceType">> \in DOMAIN m /\ m[<<"resourceType">>].t = "str"
         THEN m[<<"resourceType">>].s
         ELSE <<>>

RECURSIVE Reverse(_)
Reverse(q) == IF q = <<>> THEN <<>> ELSE Append(Reverse(Tail(q)), Head(q))

\* "for key, val := range obj" visits the keys in an order the runtime picks;
\* ord selects one of the orders the model lets it pick
RangeOrder(keys, ord) == IF ord = "asc" THEN SortedKeys(keys) ELSE Reverse(SortedKeys(keys))

RangeOrders == {"asc", "desc"}

RECURSIVE redactValue(_, _, _)
RECURSIVE redactFieldValue(_, _, _, _, _)
RECURSIVE RedactMembers(_, _, _, _, _, _)
RECURSIVE RedactElements(_, _, _, _, _)

\* the redacted element put in front of the result
ElementRedactedInFront(a, i, ord, acc, r) ==
    RedactElements(a, i + 1, r.c, ord, <<r.v>> \o acc)

ElementRedacted(a, i, ord, acc, r) == RedactElements(a, i + 1, r.c, ord, Append(acc, r.v))

\* redactValue, case []any: element by element, in order
RedactElements(a, i, c, ord, acc) ==
    IF i > Len(a) THEN [v |-> [t |-> "arr", a |-> acc], c |-> c]
    ELSE ElementRedacted(a, i, ord, acc, redactValue(a[i], c, ord))

MemberRedacted(m, keys, resourceType, ord, acc, r) ==
    RedactMembers(m, Tail(keys), resourceType, r.c, ord, Store(acc, Head(keys), r.v))

\* the loop of redactObject over the keys still to visit
RedactMembers(m, keys, resourceType, c, ord, acc) ==
    IF keys = <<>> THEN [v |-> [t |-> "obj", m |-> acc], c |-> c]
    ELSE MemberRedacted(m, keys, resourceType, ord, acc,
                        redactFieldValue(Head(keys), m[Head(keys)], c, resourceType, ord))

redactObject(m, c, ord) ==
    RedactMembers(m, RangeOrder(DOMAIN m, ord), ResourceTypeOf(m), c, ord, <<>>)

redactFieldValue(fieldName, val, c, resourceType, ord) ==
    IF /\ Len(fieldName) = 1
       /\ fieldName[1] \in DOMAIN sensitiveFieldPatterns
       /\ IsNonEmptyString(val)
    THEN [v |-> [t |-> "str",
                 s |-> applyRedactionStrategy(sensitiveFieldPatterns[fieldName[1]], val.s)],
          c |-> c]
    ELSE IF /\ fieldName \in {<<"Name">>, <<"name">>}
            /\ IsNonEmptyString(val)
            /\ isEntityName(resourceType)
    THEN redactEntityName(resourceType, c)
    ELSE IF fieldName = <<"Value">> /\ resourceType = <<>> /\ IsNonEmptyString(val)
    THEN [v |-> [t |-> "str", s |-> <<"Redacted value">>], c |-> c]
    ELSE redactValue(val, c, ord)

redactValue(v, c, ord) ==
    CASE v.t = "obj" -> redactObject(v.m, c, ord)
      [] v.t = "arr" -> RedactElements(v.a, 1, c, ord, <<>>)
      [] v.t = "str" -> [v |-> [t |-> "str", s |-> redactString(v.s)], c |-> c]
      [] OTHER -> [v |-> v, c |-> c]

\* redactBody, lines 66-77, returning no body when the body is no JSON
RedactUnparsedDropsBody(body, c, str) == [body |-> <<>>, c |-> c]

\* redactBody, lines 66-77: the body is no JSON; str is the attempt to read it
\* as a JSON string
RedactUnparsed(body, c, str) ==
    IF str.ok
    THEN [body |-> EncodeString(redactXMLContent(replaceDomain(str.s))), c |-> c]
    ELSE [body |-> body, c |-> c]

\* redactBody, lines 79-84: the parsed value is redacted and encoded again
RedactParsed(redacted) == [body |-> MarshalValue(redacted.v), c |-> redacted.c]

RedactBodyOf(body, c, ord, parsed) ==
    IF ~parsed.ok THEN RedactUnparsed(body, c, UnmarshalString(body))
    ELSE RedactParsed(redactValue(parsed.v, c, ord))

\* redactBody: [body, c] after the body went through the redaction
redactBody(body, c, ord) == RedactBodyOf(body, c, ord, Unmarshal(body))

\* redactPair, lines 35-41, with the token parameter deleted
RedactQueryDropsToken(q) ==
    [key \in DOMAIN q \ {AccessToken} |-> replaceDomain(q[key])]

\* redactPair, lines 35-41: the query values
RedactQuery(q) ==
    [key \in DOMAIN q |-> IF key = AccessToken THEN <<"REDACTED">> ELSE replaceDomain(q[key])]

\* redactPair, lines 47-49: the header values
RedactHeaders(h) == [key \in DOMAIN h |-> replaceDomain(h[key])]

RedactedPair(pair, b) ==
    [pair |-> [description |-> pair.description,
               request |-> [method |-> pair.request.method,
                            path |-> pair.request.path,
                            query |-> RedactQuery(pair.request.query)],
               response |-> [status |-> pair.response.status,
                             headers |-> RedactHeaders(pair.response.headers),
                             body |-> b.body]],
     c |-> b.c]

\* redactPair: query values, then the body, then the header values
redactPair(pair, c, ord) == RedactedPair(pair, redactBody(pair.response.body, c, ord))

RECURSIVE RedactPairsFrom(_, _, _, _, _)
PairRedacted(pairs, i, ord, acc, r) ==
    RedactPairsFrom(pairs, i + 1, r.c, ord, Append(acc, r.pair))

\* RedactSimulation: the pairs in order, the counters carried along
RedactPairsFrom(pairs, i, c, ord, acc) ==
    IF i > Len(pairs) THEN [pairs |-> acc, c |-> c]
    ELSE PairRedacted(pairs, i, ord, acc, redactPair(pairs[i], c, ord))

RedactSimulationResult(pairs, c, ord) == RedactPairsFrom(pairs, 1, c, ord, <<>>)

-----------------------------------------------------------------------------
(* simulation.go                                                           *)

NoFile == [exists |-> FALSE]

NoSim == [loaded |-> FALSE]

\* the status codes of the model, to read a number literal back as an int
StatusCodes == {0, 200, 404, 500}

BodyOr(str, body) == IF str.ok THEN str.s ELSE body

\* Response.BodyBytes: the unquoted string if Body decodes into a string
BodyBytes(body) == BodyOr(UnmarshalString(body), body)

\* "name": as the indenting encoder writes a struct field's key
Key(name) == <<"\"", name, "\"", ":", " ">>

\* json.Indent continued inside a value that starts at nesting depth
IndentAt(b, depth) == IndentFrom(b, 1, depth, FALSE, FALSE)

\* a Request, its fields at depth 4: query has omitempty
MarshalRequest(r) ==
    <<"{">> \o Newline(4) \o Key("method") \o EncodeString(r.method)
    \o <<",">> \o Newline(4) \o Key("path") \o EncodeString(r.path)
    \o (IF DOMAIN r.query = {} THEN <<>>
        ELSE <<",">> \o Newline(4) \o Key("query") \o IndentAt(MarshalStringMap(r.query), 4))
    \o Newline(3) \o <<"}">>

\* a Response, its fields at depth 4: headers has omitempty, body is a
\* json.RawMessage, compacted and then indented with the rest of the document
MarshalResponse(r) ==
    <<"{">> \o Newline(4) \o Key("status") \o <<ToString(r.status)>>
    \o (IF DOMAIN r.headers = {} THEN <<>>
        ELSE <<",">> \o Newline(4) \o Key("headers") \o IndentAt(MarshalStringMap(r.headers), 4))
    \o <<",">> \o Newline(4) \o Key("body") \o IndentAt(MarshalRaw(r.body).out, 4)
    \o Newline(3) \o <<"}">>

\* a Pair, its fields at depth 3: description has omitempty
MarshalPair(p) ==
    <<"{">> \o Newline(3)
    \o (IF p.description = <<>> THEN <<>>
        ELSE Key("description") \o EncodeString(p.description) \o <<",">> \o Newline(3))
    \o Key("request") \o MarshalRequest(p.request)
    \o <<",">> \o Newline(3) \o Key("response") \o MarshalResponse(p.response)
    \o Newline(2) \o <<"}">>

RECURSIVE MarshalPairs(_, _)
MarshalPairs(pairs, i) ==
    IF i > Len(pairs) THEN <<>>
    ELSE (IF i > 1 THEN <<",">> ELSE <<>>) \o Newline(2) \o MarshalPair(pairs[i])
         \o MarshalPairs(pairs, i + 1)

\* json.MarshalIndent(sim, "", "  "): fails when a Body is no valid JSON; a nil
\* Pairs slice (nothing was appended) is written as null
MarshalIndentSimulation(pairs) ==
    IF \E i \in DOMAIN pairs : ~MarshalRaw(pairs[i].response.body).ok
    THEN [ok |-> FALSE, data |-> <<>>]
    ELSE [ok |-> TRUE,
          data |-> <<"{">> \o Newline(1) \o Key("pairs")
                   \o (IF pairs = <<>> THEN <<"null">>
                       ELSE <<"[">> \o MarshalPairs(pairs, 1) \o Newline(1) \o <<"]">>)
                   \o Newline(0) \o <<"}">>]

Saved(file, m) ==
    IF m.ok THEN [err |-> FALSE, file |-> [exists |-> TRUE, data |-> m.data]]
    ELSE [err |-> TRUE, file |-> file]

\* SaveSimulation: the file after the call, and whether it returned an error
SaveSimulationResult(file, pairs) == Saved(file, MarshalIndentSimulation(pairs))

Field(v, name) == v.m[<<name>>]

HasField(v, name) == v.t = "obj" /\ <<name>> \in DOMAIN v.m

StringField(v, name) ==
    IF HasField(v, name) /\ Field(v, name).t = "str" THEN Field(v, name).s ELSE <<>>

StringMapField(v, name) ==
    IF HasField(v, name) /\ Field(v, name).t = "obj"
    THEN [k \in DOMAIN Field(v, name).m |-> Field(v, name).m[k].s]
    ELSE <<>>

IntField(v, name) ==
    IF HasField(v, name) /\ Field(v, name).t = "num"
    THEN CHOOSE n \in StatusCodes : ToString(n) = Field(v, name).d
    ELSE 0

SubValue(v, name) == IF HasField(v, name) THEN Field(v, name) ELSE [t |-> "null"]

DecodeRequest(req) ==
    [method |-> StringField(req, "method"),
     path |-> StringField(req, "path"),
     query |-> StringMapField(req, "query")]

DecodeResponse(resp) ==
    [status |-> IntField(resp, "status"),
     headers |-> StringMapField(resp, "headers"),
     body |-> IF HasField(resp, "body") THEN Field(resp, "body").raw ELSE <<>>]

\* decoding of one element of "pairs" into a Pair; Body receives the raw bytes
DecodePair(v) ==
    [description |-> StringField(v, "description"),
     request |-> DecodeRequest(SubValue(v, "request")),
     response |-> DecodeResponse(SubValue(v, "response"))]

DecodePairs(ps) ==
    IF ps.t = "arr" THEN [i \in DOMAIN ps.a |-> DecodePair(ps.a[i])] ELSE <<>>

\* what json.Unmarshal accepts for a field of type string, int,
\* map[string]string and for a struct: the JSON type of the Go type, or null
StringTyped(v) == v.t \in {"str", "null"}

IntTyped(v) == v.t \in {"num", "null"}

StringMapTyped(v) == v.t = "null" \/ (v.t = "obj" /\ \A k \in DOMAIN v.m : StringTyped(v.m[k]))

RequestTyped(v) ==
    \/ v.t = "null"
    \/ /\ v.t = "obj"
       /\ StringTyped(SubValue(v, "method"))
       /\ StringTyped(SubValue(v, "path"))
       /\ StringMapTyped(SubValue(v, "query"))

ResponseTyped(v) ==
    \/ v.t = "null"
    \/ /\ v.t = "obj"
       /\ IntTyped(SubValue(v, "status"))
       /\ StringMapTyped(SubValue(v, "headers"))

PairTyped(v) ==
    \/ v.t = "null"
    \/ /\ v.t = "obj"
       /\ StringTyped(SubValue(v, "description"))
       /\ RequestTyped(SubValue(v, "request"))
       /\ ResponseTyped(SubValue(v, "response"))

PairsTyped(ps) == ps.t = "null" \/ (ps.t = "arr" /\ \A i \in DOMAIN ps.a : PairTyped(ps.a[i]))

\* no *json.UnmarshalTypeError when the value is decoded into a Simulation
SimulationTyped(v) == v.t = "null" \/ (v.t = "obj" /\ PairsTyped(SubValue(v, "pairs")))

Decoded(v) ==
    IF ~v.ok \/ ~SimulationTyped(v.v) THEN [err |-> TRUE, sim |-> NoSim]
    ELSE [err |-> FALSE, sim |-> [loaded |-> TRUE, pairs |-> DecodePairs(SubValue(v.v, "pairs"))]]

\* LoadSimulation: a missing or unparsable file is an error
LoadSimulationResult(file) ==
    IF ~file.exists THEN [err |-> TRUE, sim |-> NoSim] ELSE Decoded(Unmarshal(file.data))

\* fmt.Errorf("... simulation %s: %w", path, err)
LoadError(file, path) ==
    (IF file.exists THEN <<"parsing simulation ">> ELSE <<"reading simulation ">>)
    \o path \o <<": ">>

\* LoadSimulation(path): the Simulation or nil, and the error with its message
LoadedFrom(file, path, r) ==
    [err |-> r.err, sim |-> r.sim, msg |-> IF r.err THEN LoadError(file, path) ELSE <<>>]

LoadSimulationAt(path, file) == LoadedFrom(file, path, LoadSimulationResult(file))

\* a handler that appends without waiting for the lock
CanLockUnguarded(who) == TRUE

\* ss.mu.Lock() returns once the lock is free
CanLock(who) == mu = 0

\* exact query matching: the request may carry no parameter beyond the fixture's
matchesExactQuery(r, sim) ==
    /\ r.method = sim.method
    /\ r.path = sim.path
    /\ QueryKeys(r.query) = DOMAIN sim.query
    /\ \A key \in DOMAIN sim.query : Get(r.query, key) = sim.query[key]

\* matches: method, path, then every key of the fixture's Query
matches(r, sim) ==
    IF r.method # sim.method THEN FALSE
    ELSE IF r.path # sim.path THEN FALSE
    ELSE IF Cardinality(DOMAIN sim.query) > 0
         THEN \A key \in DOMAIN sim.query : Get(r.query, key) = sim.query[key]
         ELSE TRUE

\* handler, lines 127-134: what is appended to ss.requests
RecordedRequest(r) == [Method |-> r.method, Path |-> r.path, Query |-> r.query]

\* handler, lines 140-155: the response written for a matching pair
MatchResponse(pair) ==
    LET h == pair.response.headers
        header == IF HeaderGet(h, ContentType) = <<>>
                  THEN [k \in DOMAIN h \cup {ContentType} |->
                           IF k = ContentType THEN <<"application/", "json">> ELSE h[k]]
                  ELSE h
    IN  [status |-> IF pair.response.status = 0 THEN 200 ELSE pair.response.status,
         header |-> header,
         body |-> BodyBytes(pair.response.body)]

\* a diagnostic that names the path without the query
NoMatchResponsePathOnly(r) ==
    [status |-> 404,
     header |-> [k \in {ContentType} |-> <<"text/", "plain">>],
     body |-> <<"no matching simulation for ">> \o r.method \o <<" ">> \o r.path]

\* handler, lines 157-160: the 404 written when no pair matched
NoMatchResponse(r) ==
    [status |-> 404,
     header |-> [k \in {ContentType} |-> <<"text/", "plain">>],
     body |-> <<"no matching simulation for ">> \o r.method \o <<" ">> \o URLString(r)]

\* handler, lines 136-160, the scan from pair i on
RECURSIVE ScanFrom(_, _, _)
ScanFrom(pairs, r, i) ==
    IF i > Len(pairs) THEN NoMatchResponse(r)
    ELSE IF matches(r, pairs[i].request) THEN MatchResponse(pairs[i])
    ELSE ScanFrom(pairs, r, i + 1)

-----------------------------------------------------------------------------
(* The capture tool: cmd/tp-capture run(), one scenario, then a replay     *)

MaxPairs == 2

MaxFailures == 1

MaxReplies == 1

Param(k, v) == <<<<k>>, v>>

\* the requests the api.Client sends: the token always, format on v1 calls
CaptureRequests ==
    {[method |-> <<"GET">>, path |-> <<"/api/v2/", "UserStory">>,
      query |-> <<Param("access_token", Token), Param("take", <<"3">>)>>],
     [method |-> <<"GET">>, path |-> <<"/api/v2/", "UserStory">>,
      query |-> <<Param("access_token", Token), Param("take", <<"1">>),
                  Param("select", <<"{", "id", "}">>)>>],
     [method |-> <<"GET">>, path |-> <<"/api/v1/", "Index/meta">>,
      query |-> <<Param("access_token", Token), Param("format", <<"json">>)>>]}

JSONType == <<"application/", "json", "; charset=utf-8">>

XMLType == <<"text/", "xml">>

Str(a) == <<"\"", a, "\"">>

\* response bodies: JSON documents, JSON scalars, XML, and broken payloads
BodyCompact == <<"{">> \o Str("a") \o <<":", "1", "}">>

BodySpaced == <<"{", " ">> \o Str("a") \o <<":", " ", "1", " ", "}">>

BodyEntity ==
    <<"{">> \o Str("Items") \o <<":", "[", "{">>
    \o Str("ResourceType") \o <<":">> \o Str("UserStory") \o <<",">>
    \o Str("Id") \o <<":", "7", ",">>
    \o Str("Name") \o <<":">> \o Str("Secret plan")
    \o <<"}", "]", "}">>

BodyNext ==
    <<"{">> \o Str("Next") \o <<":", "\"", "https://">> \o RealDomain
    \o <<"/api/v2/UserStory?access_token=">> \o Token \o <<"\"", "}">>

BodyStringLiteral == Str("plain")

BodyNull == <<"null">>

BodyEmpty == <<>>

BodyBroken == <<"{", "oops">>

BodyXML ==
    <<"<", "Item", " ", "Name", "=", "\"", "UserStory", "\"", " ",
      "Description", "=", "\"", "secret", "\"", "/", ">">>

BodyText == <<"ok">>

\* what the Base transport may answer: header and body
Payloads ==
    {[header |-> (ContentType :> JSONType), body |-> b] :
        b \in {BodyCompact, BodySpaced, BodyEntity, BodyNext, BodyStringLiteral, BodyNull,
               BodyEmpty}}
    \cup {[header |-> (ContentType :> XMLType), body |-> b] : b \in {BodyXML, BodyBroken}}
    \cup {[header |-> <<>>, body |-> b] : b \in {BodyText, BodyCompact}}

BaseResponses ==
    {[status |-> 200, header |-> p.header, body |-> p.body] : p \in Payloads}
    \cup {[status |-> 500, header |-> <<>>, body |-> BodyText]}

\* what the Base transport returns when the exchange fails: no response, or a
\* response whose body breaks off
BaseFailures ==
    {TransportError("dial tcp: timeout"),
     Answer([status |-> 200, header |-> (ContentType :> JSONType), body |-> <<"{">> \o Str("a")],
            "unexpected EOF")}

\* no RoundTrip call was made yet
NoCall == [base |-> <<>>, out |-> TransportError(""), resp |-> NilResponse, err |-> ""]

\* the scenario name run() writes into every Description
ScenarioName == <<"query_collection">>

ServerIdle ==
    /\ ssSim = <<>>
    /\ mu = 0
    /\ requests = <<>>
    /\ hpc = <<>>
    /\ hreq = <<>>
    /\ hidx = <<>>
    /\ htmp = <<>>
    /\ hresp = <<>>
    /\ rdpc = "idle"
    /\ snaps = <<>>

NotCalled == [done |-> FALSE, out |-> <<>>, err |-> FALSE, seen |-> <<>>]

\* no slice was handed out and ResolveMentions was not called
ExtraIdle ==
    /\ held = <<>>
    /\ mText = <<>>
    /\ mAnswers = <<>>
    /\ mSent = <<>>
    /\ mOut = NotCalled

\* no RedactSimulation call and no directory load was made
UnitsIdle ==
    /\ rdRuns = <<>>
    /\ dir = {}
    /\ combined = [err |-> FALSE, sim |-> NoSim]
    /\ scIdx = 0
    /\ trace = <<>>
    /\ ExtraIdle

\* a RecordingTransport that recorded nothing, and no fixture file
CaptureIdle ==
    /\ rtPairs = <<>>
    /\ exchanges = <<>>
    /\ failures = 0
    /\ rtCall = NoCall
    /\ disk = NoFile
    /\ saveErr = FALSE
    /\ loaded = NoSim
    /\ replies = <<>>

Init ==
    /\ pc = "capture"
    /\ rtPairs = <<>>
    /\ exchanges = <<>>
    /\ failures = 0
    /\ rtCall = NoCall
    /\ counters = <<>>
    /\ disk = NoFile
    /\ saveErr = FALSE
    /\ loaded = NoSim
    /\ replies = <<>>
    /\ ServerIdle
    /\ UnitsIdle

\* one RoundTrip call: Base is given req, answers out, and r comes of it
Returned(req, out, r) ==
    /\ rtPairs' = r.pairs
    /\ rtCall' = [base |-> <<req>>, out |-> out, resp |-> r.resp, err |-> r.err]

\* RoundTrip, the Base transport answered and the body was read
RoundTrip(req, resp) ==
    /\ pc = "capture"
    /\ Len(rtPairs) < MaxPairs
    /\ Returned(req, Answer(resp, ""), RoundTripResult(rtPairs, req, Answer(resp, "")))
    /\ exchanges' = Append(exchanges, [req |-> req, resp |-> resp])
    /\ UNCHANGED <<pc, failures, counters, disk, saveErr, loaded, replies>>
    /\ UNCHANGED <<serverVars, unitVars>>

\* RoundTrip, the Base transport or the read of the body returned an error
RoundTripFails(req, out) ==
    /\ pc = "capture"
    /\ failures < MaxFailures
    /\ failures' = failures + 1
    /\ Returned(req, out, RoundTripResult(rtPairs, req, out))
    /\ UNCHANGED <<pc, exchanges, counters, disk, saveErr, loaded, replies>>
    /\ UNCHANGED <<serverVars, unitVars>>

\* run(), lines 81-86: BuildSimulation and the descriptions
BuildSimulation ==
    /\ pc = "capture"
    /\ pc' = "built"
    /\ rtPairs' = [i \in DOMAIN rtPairs |->
                      [description |-> ScenarioName,
                       request |-> rtPairs[i].request,
                       response |-> rtPairs[i].response]]
    /\ UNCHANGED <<exchanges, failures, rtCall, counters, disk, saveErr, loaded, replies>>
    /\ UNCHANGED <<serverVars, unitVars>>

ResetCounters ==
    /\ pc = "built"
    /\ pc' = "reset"
    /\ counters' = <<>>
    /\ UNCHANGED <<rtPairs, exchanges, failures, rtCall, disk, saveErr, loaded, replies>>
    /\ UNCHANGED <<serverVars, unitVars>>

RedactedTo(r) ==
    /\ rtPairs' = r.pairs
    /\ counters' = r.c

RedactSimulation ==
    /\ pc = "reset"
    /\ \E ord \in RangeOrders : RedactedTo(RedactSimulationResult(rtPairs, counters, ord))
    /\ pc' = "redacted"
    /\ UNCHANGED <<exchanges, failures, rtCall, disk, saveErr, loaded, replies>>
    /\ UNCHANGED <<serverVars, unitVars>>

SavedTo(r) ==
    /\ disk' = r.file
    /\ saveErr' = r.err
    /\ pc' = IF r.err THEN "failed" ELSE "saved"

SaveSimulation ==
    /\ pc = "redacted"
    /\ SavedTo(SaveSimulationResult(disk, rtPairs))
    /\ UNCHANGED <<rtPairs, exchanges, failures, rtCall, counters, loaded, replies>>
    /\ UNCHANGED <<serverVars, unitVars>>

LoadedTo(r) ==
    /\ loaded' = r.sim
    /\ pc' = IF r.err THEN "failed" ELSE "loaded"

LoadSimulation ==
    /\ pc = "saved"
    /\ LoadedTo(LoadSimulationResult(disk))
    /\ UNCHANGED <<rtPairs, exchanges, failures, rtCall, counters, disk, saveErr, replies>>
    /\ UNCHANGED <<serverVars, unitVars>>

\* a client sends r to a SimulationServer serving the loaded fixture
Replay(r) ==
    /\ pc = "loaded"
    /\ Len(replies) < MaxReplies
    /\ replies' = Append(replies, [req |-> r, resp |-> ScanFrom(loaded.pairs, r, 1)])
    /\ UNCHANGED <<pc, rtPairs, exchanges, failures, rtCall, counters, disk, saveErr, loaded>>
    /\ UNCHANGED <<serverVars, unitVars>>

Next ==
    \/ \E req \in CaptureRequests, resp \in BaseResponses : RoundTrip(req, resp)
    \/ \E req \in CaptureRequests, out \in BaseFailures : RoundTripFails(req, out)
    \/ BuildSimulation
    \/ ResetCounters
    \/ RedactSimulation
    \/ SaveSimulation
    \/ LoadSimulation
    \/ \E r \in CaptureRequests : Replay(r)

Spec == Init /\ [][Next]_vars

\* the RecordingTransport of one scenario alone, up to BuildSimulation
NextTransport ==
    \/ \E req \in CaptureRequests, resp \in BaseResponses : RoundTrip(req, resp)
    \/ \E req \in CaptureRequests, out \in BaseFailures : RoundTripFails(req, out)
    \/ BuildSimulation

SpecTransport == Init /\ [][NextTransport]_vars

-----------------------------------------------------------------------------
(* The replay server: NewSimulationServer(sim), handler goroutines and a   *)
(* goroutine that calls Requests()                                         *)

NumHandlers == 2

MaxSnaps == 2

Handlers == 1..NumHandlers

\* the holder of ss.mu while Requests() runs
Reader == NumHandlers + 1

FixturePair(q, st, h, body) ==
    [description |-> <<>>,
     request |-> [method |-> <<"GET">>, path |-> <<"/api/v2/", "UserStory">>, query |-> q],
     response |-> [status |-> st, headers |-> h, body |-> body]]

PairTake3 == FixturePair((<<"take">> :> <<"3">>), 200, (ContentType :> JSONType), BodyCompact)

PairAny == FixturePair(<<>>, 0, <<>>, EncodeString(BodyXML))

PairSkipEmpty ==
    FixturePair((<<"skip">> :> <<>>) @@ (<<"take">> :> <<"3">>), 500,
                (<<"X-Fixture">> :> <<"skip">>), BodyEntity)

PairTake5 == FixturePair((<<"take">> :> <<"5">>), 404, (ContentType :> JSONType), BodyNext)

\* the fixtures a test may start the server with; the empty Simulation included
Fixtures ==
    {<<>>, <<PairTake3, PairAny>>, <<PairAny, PairTake3>>, <<PairSkipEmpty, PairTake3>>,
     <<PairTake5, PairTake3>>}

Inbound(m, path, q) == [method |-> <<m>>, path |-> path, query |-> q]

\* the requests clients send to the server
InboundRequests ==
    {Inbound("GET", <<"/api/v2/", "UserStory">>,
             <<Param("take", <<"3">>), Param("extra", <<"1">>)>>),
     Inbound("GET", <<"/api/v2/", "UserStory">>, <<Param("take", <<"5">>)>>),
     Inbound("GET", <<"/api/v2/", "UserStory">>,
             <<Param("skip", <<>>), Param("take", <<"3">>), Param("take", <<"5">>)>>),
     Inbound("POST", <<"/api/v2/", "UserStory">>, <<Param("take", <<"3">>)>>),
     Inbound("GET", <<"/api/v2/", "UserStory", "/">>, <<>>)}

NoResponse == [status |-> 0, header |-> <<>>, body |-> <<>>]

InitServer ==
    /\ pc = "replay"
    /\ rtPairs = <<>>
    /\ exchanges = <<>>
    /\ failures = 0
    /\ rtCall = NoCall
    /\ counters = <<>>
    /\ disk = NoFile
    /\ saveErr = FALSE
    /\ loaded = NoSim
    /\ replies = <<>>
    /\ ssSim \in Fixtures
    /\ mu = 0
    /\ requests = <<>>
    /\ hpc = [h \in Handlers |-> "idle"]
    /\ hreq = [h \in Handlers |-> Inbound("", <<>>, <<>>)]
    /\ hidx = [h \in Handlers |-> 0]
    /\ htmp = [h \in Handlers |-> <<>>]
    /\ hresp = [h \in Handlers |-> NoResponse]
    /\ rdpc = "idle"
    /\ snaps = <<>>
    /\ UnitsIdle

\* the http server starts handler(w, r) in a goroutine of its own
Serve(h, r) ==
    /\ hpc[h] = "idle"
    /\ hpc' = [hpc EXCEPT ![h] = "lock"]
    /\ hreq' = [hreq EXCEPT ![h] = r]
    /\ UNCHANGED <<ssSim, mu, requests, hidx, htmp, hresp, rdpc, snaps>>
    /\ UNCHANGED <<captureVars, unitVars>>

\* handler: ss.mu.Lock()
HandlerLock(h) ==
    /\ hpc[h] = "lock"
    /\ CanLock(h)
    /\ mu' = h
    /\ hpc' = [hpc EXCEPT ![h] = "read"]
    /\ UNCHANGED <<ssSim, requests, hreq, hidx, htmp, hresp, rdpc, snaps>>
    /\ UNCHANGED <<captureVars, unitVars>>

\* handler: append reads ss.requests ...
HandlerRead(h) ==
    /\ hpc[h] = "read"
    /\ htmp' = [htmp EXCEPT ![h] = requests]
    /\ hpc' = [hpc EXCEPT ![h] = "write"]
    /\ UNCHANGED <<ssSim, mu, requests, hreq, hidx, hresp, rdpc, snaps>>
    /\ UNCHANGED <<captureVars, unitVars>>

\* ... and the extended slice is assigned to ss.requests
HandlerWrite(h) ==
    /\ hpc[h] = "write"
    /\ requests' = Append(htmp[h], RecordedRequest(hreq[h]))
    /\ hpc' = [hpc EXCEPT ![h] = "unlock"]
    /\ UNCHANGED <<ssSim, mu, hreq, hidx, htmp, hresp, rdpc, snaps>>
    /\ UNCHANGED <<captureVars, unitVars>>

\* a handler that goes on to the scan with the lock still held
HandlerKeepsLock(h) ==
    /\ hpc[h] = "unlock"
    /\ hidx' = [hidx EXCEPT ![h] = 1]
    /\ hpc' = [hpc EXCEPT ![h] = "scan"]
    /\ UNCHANGED <<ssSim, mu, requests, hreq, htmp, hresp, rdpc, snaps>>
    /\ UNCHANGED <<captureVars, unitVars>>

\* handler: ss.mu.Unlock(); the scan starts at the first pair
HandlerUnlock(h) ==
    /\ hpc[h] = "unlock"
    /\ mu' = 0
    /\ hidx' = [hidx EXCEPT ![h] = 1]
    /\ hpc' = [hpc EXCEPT ![h] = "scan"]
    /\ UNCHANGED <<ssSim, requests, hreq, htmp, hresp, rdpc, snaps>>
    /\ UNCHANGED <<captureVars, unitVars>>

\* a scan in which a later matching pair overrides an earlier one
ScanVerdictLastMatch(pairs, r, i) ==
    IF i > Len(pairs) THEN "nomatch"
    ELSE IF ~matches(r, pairs[i].request) THEN "skip"
    ELSE IF \E j \in (i + 1)..Len(pairs) : matches(r, pairs[j].request) THEN "skip"
    ELSE "match"

\* one turn of "for _, pair := range ss.sim.Pairs": skip, match or loop end
ScanVerdict(pairs, r, i) ==
    IF i > Len(pairs) THEN "nomatch"
    ELSE IF ~matches(r, pairs[i].request) THEN "skip"
    ELSE "match"

HandlerSkip(h) ==
    /\ hpc[h] = "scan"
    /\ ScanVerdict(ssSim, hreq[h], hidx[h]) = "skip"
    /\ hidx' = [hidx EXCEPT ![h] = hidx[h] + 1]
    /\ UNCHANGED <<ssSim, mu, requests, hpc, hreq, htmp, hresp, rdpc, snaps>>
    /\ UNCHANGED <<captureVars, unitVars>>

\* a handler that takes the pair it answered from out of the Simulation
HandlerMatchConsumes(h) ==
    /\ hpc[h] = "scan"
    /\ ScanVerdict(ssSim, hreq[h], hidx[h]) = "match"
    /\ hresp' = [hresp EXCEPT ![h] = MatchResponse(ssSim[hidx[h]])]
    /\ hpc' = [hpc EXCEPT ![h] = "done"]
    /\ ssSim' = SubSeq(ssSim, 1, hidx[h] - 1) \o SubSeq(ssSim, hidx[h] + 1, Len(ssSim))
    /\ UNCHANGED <<mu, requests, hreq, hidx, htmp, rdpc, snaps>>
    /\ UNCHANGED <<captureVars, unitVars>>

HandlerMatch(h) ==
    /\ hpc[h] = "scan"
    /\ ScanVerdict(ssSim, hreq[h], hidx[h]) = "match"
    /\ hresp' = [hresp EXCEPT ![h] = MatchResponse(ssSim[hidx[h]])]
    /\ hpc' = [hpc EXCEPT ![h] = "done"]
    /\ UNCHANGED <<ssSim, mu, requests, hreq, hidx, htmp, rdpc, snaps>>
    /\ UNCHANGED <<captureVars, unitVars>>

HandlerNoMatch(h) ==
    /\ hpc[h] = "scan"
    /\ ScanVerdict(ssSim, hreq[h], hidx[h]) = "nomatch"
    /\ hresp' = [hresp EXCEPT ![h] = NoMatchResponse(hreq[h])]
    /\ hpc' = [hpc EXCEPT ![h] = "done"]
    /\ UNCHANGED <<ssSim, mu, requests, hreq, hidx, htmp, rdpc, snaps>>
    /\ UNCHANGED <<captureVars, unitVars>>

\* Requests: ss.mu.Lock()
RequestsLock ==
    /\ rdpc = "idle"
    /\ Len(snaps) < MaxSnaps
    /\ CanLock(Reader)
    /\ mu' = Reader
    /\ rdpc' = "copy"
    /\ UNCHANGED <<ssSim, requests, hpc, hreq, hidx, htmp, hresp, snaps>>
    /\ UNCHANGED <<captureVars, unitVars>>

\* Requests returning ss.requests itself
Shared(log) == [alias |-> TRUE, elems |-> log]

\* lines 177-178: a slice with an array of its own, holding the entries of log
Copied(log) == [alias |-> FALSE, elems |-> log]

\* Requests: make and copy
RequestsCopy ==
    /\ rdpc = "copy"
    /\ snaps' = Append(snaps, requests)
    /\ held' = Append(held, Copied(requests))
    /\ rdpc' = "unlock"
    /\ UNCHANGED <<ssSim, mu, requests, hpc, hreq, hidx, htmp, hresp>>
    /\ UNCHANGED <<captureVars, rdRuns, dir, combined, runVars, mText, mAnswers, mSent, mOut>>

\* Requests: the deferred ss.mu.Unlock(), and the return
RequestsUnlock ==
    /\ rdpc = "unlock"
    /\ mu' = 0
    /\ rdpc' = "idle"
    /\ UNCHANGED <<ssSim, requests, hpc, hreq, hidx, htmp, hresp, snaps>>
    /\ UNCHANGED <<captureVars, unitVars>>

\* what a caller writes over an entry of a slice it was given
Scribble == [Method |-> <<"DELETE">>, Path |-> <<>>, Query |-> <<>>]

WriteAt(seq, i, rec) == [k \in DOMAIN seq |-> IF k = i THEN rec ELSE seq[k]]

\* the caller of Requests() assigns to element i of the k-th slice it got;
\* the write lands in ss.requests too if that is the array of the slice
CallerWrites(k, i) ==
    /\ k \in DOMAIN held
    /\ k < Len(held) \/ rdpc = "idle"
    /\ i \in DOMAIN held[k].elems
    /\ \A j \in DOMAIN held : \A n \in DOMAIN held[j].elems : held[j].elems[n] # Scribble
    /\ held' = [held EXCEPT ![k] = [alias |-> held[k].alias,
                                    elems |-> WriteAt(held[k].elems, i, Scribble)]]
    /\ requests' = IF held[k].alias THEN WriteAt(requests, i, Scribble) ELSE requests
    /\ UNCHANGED <<ssSim, mu, hpc, hreq, hidx, htmp, hresp, rdpc, snaps>>
    /\ UNCHANGED <<captureVars, rdRuns, dir, combined, runVars, mText, mAnswers, mSent, mOut>>

NextServer ==
    \/ \E h \in Handlers, r \in InboundRequests : Serve(h, r)
    \/ \E h \in Handlers : HandlerLock(h)
    \/ \E h \in Handlers : HandlerRead(h)
    \/ \E h \in Handlers : HandlerWrite(h)
    \/ \E h \in Handlers : HandlerUnlock(h)
    \/ \E h \in Handlers : HandlerSkip(h)
    \/ \E h \in Handlers : HandlerMatch(h)
    \/ \E h \in Handlers : HandlerNoMatch(h)
    \/ RequestsLock
    \/ RequestsCopy
    \/ RequestsUnlock
    \/ \E k \in 1..MaxSnaps, i \in 1..NumHandlers : CallerWrites(k, i)

SpecServer == InitServer /\ [][NextServer]_vars

\* one of HandlerRead, Write, Unlock, Skip, Match, NoMatch is enabled: the
\* handler is past the lock and has not answered
HandlerCanStep(h) == hpc[h] \in {"read", "write", "unlock", "scan"}

\* one of these steps is taken, told by what it does to the handler's position
HandlerStepped(h) == HandlerCanStep(h) /\ (hpc'[h] # hpc[h] \/ hidx'[h] # hidx[h])

\* the Go scheduler runs every goroutine that can run: weak fairness of the
\* handler's steps past the lock, written out with their enabling condition,
\* of the handler's Lock and of the steps of Requests()
SpecServerLive ==
    /\ InitServer
    /\ [][NextServer]_vars
    /\ \A h \in Handlers :
          /\ []<>(~HandlerCanStep(h)) \/ []<><<HandlerStepped(h)>>_vars
          /\ WF_vars(HandlerLock(h))
    /\ WF_vars(RequestsCopy \/ RequestsUnlock)

-----------------------------------------------------------------------------
(* RedactSimulation called on its own: a run of calls on Simulations, with  *)
(* ResetCounters between some of them                                       *)

MaxRuns == 2

Tagged(tag, nameKey, name) ==
    <<"{">> \o Str(tag) \o <<":">> \o Str("EntityState") \o <<",">>
    \o Str(nameKey) \o <<":">> \o Str(name) \o <<"}">>

\* two nested objects with a Name under different keys, no resource type
BodySiblings ==
    <<"{">> \o Str("a") \o <<":", "{">> \o Str("Name") \o <<":">> \o Str("x") \o <<"}", ",">>
    \o Str("b") \o <<":", "{">> \o Str("Name") \o <<":">> \o Str("x") \o <<"}", "}">>

\* an object with a Name and a name, tagged Project
BodyBothNames ==
    <<"{">> \o Str("Name") \o <<":">> \o Str("Apollo") \o <<",">>
    \o Str("ResourceType") \o <<":">> \o Str("Project") \o <<",">>
    \o Str("name") \o <<":">> \o Str("apollo") \o <<"}">>

\* values of every JSON type, nested: arrays in arrays, objects in arrays
BodyShapes ==
    <<"{">> \o Str("Items") \o <<":", "[", "1", ",", "true", ",", "null", ",">>
    \o Str("bob@corp.com") \o <<",", "[", "{">> \o Str("Name") \o <<":">> \o Str("x")
    \o <<",">> \o Str("Id") \o <<":", "7", "}", "]", ",", "{", "}", "]", ",">>
    \o Str("Description") \o <<":">> \o Str("d") \o <<",">>
    \o Str("Id") \o <<":", "2", ",">>
    \o Str("a") \o <<":", "false", ",">>
    \o Str("b") \o <<":", "null", "}">>

\* custom-field entries: a text, a number, an empty text, and a tagged object
BodyValues ==
    <<"[", "{">> \o Str("Value") \o <<":">> \o Str("secret") \o <<"}", ",", "{">>
    \o Str("Value") \o <<":", "7", "}", ",", "{">>
    \o Str("Value") \o <<":", "\"", "\"", "}", ",", "{">>
    \o Str("ResourceType") \o <<":">> \o Str("CustomField") \o <<",">>
    \o Str("Value") \o <<":">> \o Str("kept") \o <<"}", "]">>

RedactBodies ==
    {BodyEntity, BodySiblings, BodyBothNames, BodyShapes, BodyValues,
     Tagged("ResourceType", "Name", "Open"),
     Tagged("resourceType", "name", "bob@corp.com"),
     Tagged("ResourceType", "Name", "")}

\* a pair with a token and the domain in its query and the domain in a header
PairWithToken(body) ==
    [description |-> <<"inspect_types">>,
     request |-> [method |-> <<"POST">>, path |-> <<"/api/v1/", "Index/meta">>,
                  query |-> (AccessToken :> Token)
                            @@ (<<"where">> :> <<"https://">> \o RealDomain)],
     response |-> [status |-> 500,
                   headers |-> (ContentType :> XMLType)
                               @@ (<<"Location">> :> <<"https://">> \o RealDomain),
                   body |-> body]]

\* bodies json.Unmarshal reads neither as a value nor as a string
UnparsedBodies == {BodyBroken, BodyEmpty, BodyText}

\* the Simulations RedactSimulation is called on
RedactInputs ==
    {<<FixturePair(<<>>, 200, (ContentType :> JSONType), b)>> : b \in RedactBodies}
    \cup {<<FixturePair(<<>>, 200, (ContentType :> JSONType), BodyEntity),
            FixturePair(<<>>, 200, (ContentType :> JSONType), BodyEntity)>>}
    \cup {<<PairWithToken(b), FixturePair(<<>>, 200, (ContentType :> JSONType), BodyEntity)>> :
             b \in UnparsedBodies}

InitRedact ==
    /\ pc = "redact"
    /\ counters = <<>>
    /\ CaptureIdle
    /\ ServerIdle
    /\ UnitsIdle

Ran(sim, r) ==
    /\ rdRuns' = Append(rdRuns, [in |-> sim, out |-> r.pairs, c0 |-> counters, c1 |-> r.c])
    /\ counters' = r.c

\* RedactSimulation(sim, opts); the runtime picks the map iteration order
RedactCall(sim, ord) ==
    /\ pc = "redact"
    /\ Len(rdRuns) < MaxRuns
    /\ Ran(sim, RedactSimulationResult(sim, counters, ord))
    /\ UNCHANGED <<pc, rtPairs, exchanges, failures, rtCall, disk, saveErr, loaded, replies,
                   dir, combined, runVars, extraVars>>
    /\ UNCHANGED serverVars

\* ResetCounters() between two calls
ResetCall ==
    /\ pc = "redact"
    /\ counters # <<>>
    /\ counters' = <<>>
    /\ UNCHANGED <<pc, rtPairs, exchanges, failures, rtCall, disk, saveErr, loaded, replies>>
    /\ UNCHANGED serverVars
    /\ UNCHANGED unitVars

NextRedact ==
    \/ \E sim \in RedactInputs, ord \in RangeOrders : RedactCall(sim, ord)
    \/ ResetCall

SpecRedact == InitRedact /\ [][NextRedact]_vars

-----------------------------------------------------------------------------
(* LoadSimulationsFromDir on a directory of fixture files                  *)

\* a directory entry: a file with its content, or a sub-directory
DirEntry(name, isDir, data) ==
    [name |-> name, isDir |-> isDir, data |-> data, readable |-> TRUE]

\* a file os.ReadFile fails on
UnreadableEntry(name) == [name |-> name, isDir |-> FALSE, data |-> <<>>, readable |-> FALSE]

DirPath == <<"testdata/simulations">>

\* filepath.Join(dir, entry.Name())
Join(path, name) == path \o <<"/">> \o name

\* what a directory may hold: fixture files, a file that is no .json file, a
\* sub-directory whose name ends in .json, a .json file that is no JSON
DirEntries ==
    {DirEntry(<<"a", ".json">>, FALSE, MarshalIndentSimulation(<<PairTake3>>).data),
     DirEntry(<<"b", ".json">>, FALSE, MarshalIndentSimulation(<<PairAny, PairTake5>>).data),
     DirEntry(<<"name", ".json">>, FALSE, MarshalIndentSimulation(<<>>).data),
     DirEntry(<<"select", ".txt">>, FALSE, MarshalIndentSimulation(<<PairSkipEmpty>>).data),
     DirEntry(<<"skip", ".json">>, TRUE, <<>>),
     DirEntry(<<"take", ".json">>, FALSE, BodyBroken),
     DirEntry(<<"where", ".json">>, FALSE, <<"{">> \o Str("pairs") \o <<":", "7", "}">>),
     UnreadableEntry(<<"Next", ".json">>)}

\* strings.HasSuffix(entry.Name(), ".json")
HasSuffix(name, suffix) == name # <<>> /\ name[Len(name)] = suffix

\* os.ReadDir in the reverse of the filename order
ReadDirReversed(d) == Reverse(SortedKeys({e.name : e \in d}))

\* os.ReadDir: the names of the entries, sorted by filename
ReadDir(d) == SortedKeys({e.name : e \in d})

EntryNamed(d, name) == CHOOSE e \in d : e.name = name

RECURSIVE LoadEntries(_, _, _, _, _)

\* a loop that passes over a file it cannot load
EntryLoadedSkipsBad(d, names, i, acc, opened, r) ==
    LoadEntries(d, names, i + 1, IF r.err THEN acc ELSE acc \o r.sim.pairs, opened)

\* lines 76-80: the file was loaded, or the load failed
EntryLoaded(d, names, i, acc, opened, r) ==
    IF r.err THEN [err |-> TRUE, sim |-> NoSim, msg |-> r.msg, opened |-> opened]
    ELSE LoadEntries(d, names, i + 1, acc \o r.sim.pairs, opened)

\* what os.ReadFile finds at the entry
FileOf(e) == [exists |-> e.readable, data |-> e.data]

\* the loop over the entries, from entry i on; opened: the files LoadSimulation
\* was called on so far
LoadEntries(d, names, i, acc, opened) ==
    IF i > Len(names)
    THEN [err |-> FALSE, sim |-> [loaded |-> TRUE, pairs |-> acc], msg |-> <<>>,
          opened |-> opened]
    ELSE IF EntryNamed(d, names[i]).isDir \/ ~HasSuffix(names[i], ".json")
    THEN LoadEntries(d, names, i + 1, acc, opened)
    ELSE EntryLoaded(d, names, i, acc, Append(opened, names[i]),
                     LoadSimulationAt(Join(DirPath, names[i]), FileOf(EntryNamed(d, names[i]))))

LoadSimulationsFromDirResult(d) == LoadEntries(d, ReadDir(d), 1, <<>>, <<>>)

InitDir ==
    /\ pc = "dir"
    /\ counters = <<>>
    /\ CaptureIdle
    /\ ServerIdle
    /\ rdRuns = <<>>
    /\ dir \in SUBSET DirEntries
    /\ combined = [err |-> FALSE, sim |-> NoSim]
    /\ scIdx = 0
    /\ trace = <<>>
    /\ ExtraIdle

LoadSimulationsFromDir ==
    /\ pc = "dir"
    /\ pc' = "combined"
    /\ combined' = LoadSimulationsFromDirResult(dir)
    /\ UNCHANGED <<rtPairs, exchanges, failures, rtCall, counters, disk, saveErr, loaded,
                   replies, rdRuns, dir, runVars, extraVars>>
    /\ UNCHANGED serverVars

SpecDir == InitDir /\ [][LoadSimulationsFromDir]_vars

-----------------------------------------------------------------------------
(* tp-capture, run(): the loop over the scenarios.  A scenario's capture   *)
(* function sends requests through its own RecordingTransport and returns  *)
(* nil or an error; files are written to the output directory dir.         *)

\* main.go, lines 56-61
ScenarioNames ==
    <<"query_collection", "query_single", "entity_get", "entity_search", "inspect_types",
      "inspect_properties">>

\* the scenarios of the table the model runs
NumScenarios == 2

\* what the instance answers in a run: an entity, a body that is no JSON
\* under a JSON content type, an error page
RunResponses ==
    {[status |-> 200, header |-> (ContentType :> JSONType), body |-> BodyEntity],
     [status |-> 200, header |-> (ContentType :> JSONType), body |-> BodyBroken],
     [status |-> 500, header |-> <<>>, body |-> BodyText]}

RunRequests ==
    {[method |-> <<"GET">>, path |-> <<"/api/v2/", "UserStory">>,
      query |-> <<Param("access_token", Token), Param("take", <<"3">>)>>]}

\* filepath.Join(outDir, sc.name+".json")
FixtureName(i) == <<ScenarioNames[i], ".json">>

InitRun ==
    /\ pc = "capture"
    /\ counters = <<>>
    /\ CaptureIdle
    /\ ServerIdle
    /\ rdRuns = <<>>
    /\ dir = {}
    /\ combined = [err |-> FALSE, sim |-> NoSim]
    /\ scIdx = 1
    /\ trace = <<>>
    /\ ExtraIdle

\* lines 64-74: the next turn of the loop with a new RecordingTransport, or
\* the end of the loop
NextScenario(i) ==
    /\ scIdx' = i
    /\ pc' = IF i > NumScenarios THEN "done" ELSE "capture"
    /\ rtPairs' = <<>>
    /\ exchanges' = <<>>
    /\ rtCall' = NoCall

\* a loop that runs the capture function of the scenario again
RunCaptureRetried ==
    /\ pc = "capture"
    /\ Len(trace) < 2 * NumScenarios
    /\ trace' = Append(trace, [sc |-> scIdx, op |-> "capture", err |-> TRUE])
    /\ NextScenario(scIdx)
    /\ UNCHANGED <<failures, counters, disk, saveErr, loaded, replies, rdRuns, dir, combined,
                   extraVars>>
    /\ UNCHANGED serverVars

\* lines 76-79: sc.capture returned an error
RunCaptureFailed ==
    /\ pc = "capture"
    /\ trace' = Append(trace, [sc |-> scIdx, op |-> "capture", err |-> TRUE])
    /\ NextScenario(scIdx + 1)
    /\ UNCHANGED <<failures, counters, disk, saveErr, loaded, replies, rdRuns, dir, combined,
                   extraVars>>
    /\ UNCHANGED serverVars

\* lines 76-86: sc.capture returned nil; BuildSimulation and the descriptions
RunCaptured ==
    /\ pc = "capture"
    /\ pc' = "built"
    /\ trace' = Append(trace, [sc |-> scIdx, op |-> "capture", err |-> FALSE])
    /\ rtPairs' = [i \in DOMAIN rtPairs |->
                      [description |-> <<ScenarioNames[scIdx]>>,
                       request |-> rtPairs[i].request,
                       response |-> rtPairs[i].response]]
    /\ UNCHANGED <<exchanges, failures, rtCall, counters, disk, saveErr, loaded, replies,
                   rdRuns, dir, combined, scIdx, extraVars>>
    /\ UNCHANGED serverVars

\* line 89
RunResetCounters ==
    /\ pc = "built"
    /\ pc' = "reset"
    /\ counters' = <<>>
    /\ trace' = Append(trace, [sc |-> scIdx, op |-> "reset"])
    /\ UNCHANGED <<rtPairs, exchanges, failures, rtCall, disk, saveErr, loaded, replies,
                   rdRuns, dir, combined, scIdx, extraVars>>
    /\ UNCHANGED serverVars

RunRedactedTo(r) ==
    /\ RedactedTo(r)
    /\ trace' = Append(trace, [sc |-> scIdx, op |-> "redact", c0 |-> counters,
                                 in |-> rtPairs, out |-> r.pairs])

\* line 90
RunRedactSimulation ==
    /\ pc = "reset"
    /\ pc' = "redacted"
    /\ \E ord \in RangeOrders : RunRedactedTo(RedactSimulationResult(rtPairs, counters, ord))
    /\ UNCHANGED <<exchanges, failures, rtCall, disk, saveErr, loaded, replies,
                   rdRuns, dir, combined, scIdx, extraVars>>
    /\ UNCHANGED serverVars

\* the directory after os.WriteFile(path, data, 0o600)
WriteFile(d, name, data) ==
    {e \in d : e.name # name} \cup {DirEntry(name, FALSE, data)}

\* lines 93-98: the file was written and the loop goes on, or run returns
\* the error
RunSavedTo(m) ==
    /\ trace' = Append(trace, [sc |-> scIdx, op |-> "save", sim |-> rtPairs, err |-> ~m.ok])
    /\ saveErr' = ~m.ok
    /\ IF m.ok
       THEN /\ dir' = WriteFile(dir, FixtureName(scIdx), m.data)
            /\ NextScenario(scIdx + 1)
       ELSE /\ pc' = "failed"
            /\ UNCHANGED <<dir, scIdx, rtPairs, exchanges, rtCall>>

RunSaveSimulation ==
    /\ pc = "redacted"
    /\ RunSavedTo(MarshalIndentSimulation(rtPairs))
    /\ UNCHANGED <<failures, counters, disk, loaded, replies, rdRuns, combined, extraVars>>
    /\ UNCHANGED serverVars

NextRun ==
    \/ \E req \in RunRequests, resp \in RunResponses : RoundTrip(req, resp)
    \/ \E req \in RunRequests, out \in BaseFailures : RoundTripFails(req, out)
    \/ RunCaptureFailed
    \/ RunCaptured
    \/ RunResetCounters
    \/ RunRedactSimulation
    \/ RunSaveSimulation

SpecRun == InitRun /\ [][NextRun]_vars

-----------------------------------------------------------------------------
(* The handler call by call on its http.ResponseWriter: requests served    *)
(* one after the other, to clients that may have gone when the body is     *)
(* written                                                                 *)

MaxServed == 2

\* a ResponseWriter nothing was written to: the header map, the status and
\* header sent by WriteHeader, the body sent, and the calls made on it
NewWriter == [header |-> <<>>, status |-> 0, sent |-> <<>>, body |-> <<>>, calls |-> <<>>]

\* w.Header().Set(k, v)
HeaderSet(w, k, v) ==
    [header |-> Store(w.header, k, v), status |-> w.status, sent |-> w.sent, body |-> w.body,
     calls |-> Append(w.calls, [op |-> "Set", key |-> k, val |-> v])]

\* w.WriteHeader(code): status and header map go out; a second call does not count
WriteHeader(w, code) ==
    [header |-> w.header,
     status |-> IF w.status = 0 THEN code ELSE w.status,
     sent |-> IF w.status = 0 THEN w.header ELSE w.sent,
     body |-> w.body,
     calls |-> Append(w.calls, [op |-> "WriteHeader", code |-> code])]

\* w.Write(data): the bytes go out, or the call returns an error
Write(w, data, fail) ==
    [header |-> w.header, status |-> w.status, sent |-> w.sent,
     body |-> IF fail THEN w.body ELSE w.body \o data,
     calls |-> Append(w.calls, [op |-> "Write", data |-> data, err |-> fail])]

\* handler, lines 140-142
RECURSIVE SetHeaders(_, _, _)
SetHeaders(w, headers, keys) ==
    IF keys = <<>> THEN w
    ELSE SetHeaders(HeaderSet(w, Head(keys), headers[Head(keys)]), headers, Tail(keys))

\* a handler that sets the JSON type whatever the fixture set
AlwaysJSONType(w) == HeaderSet(w, ContentType, <<"application/", "json">>)

\* handler, lines 143-145
DefaultContentType(w) ==
    IF HeaderGet(w.header, ContentType) = <<>>
    THEN HeaderSet(w, ContentType, <<"application/", "json">>)
    ELSE w

\* handler, lines 146-149
StatusOr200(status) == IF status = 0 THEN 200 ELSE status

\* handler, lines 140-154: the answer from a matching pair
WriteMatch(w, pair, ord, fail) ==
    Write(WriteHeader(DefaultContentType(SetHeaders(w, pair.response.headers,
                                                      RangeOrder(DOMAIN pair.response.headers, ord))),
                      StatusOr200(pair.response.status)),
          BodyBytes(pair.response.body), fail)

\* handler, lines 157-160
WriteNoMatch(w, r, fail) ==
    Write(WriteHeader(HeaderSet(w, ContentType, <<"text/", "plain">>), 404),
          NoMatchResponse(r).body, fail)

\* handler, lines 136-160, the scan from pair i on
RECURSIVE HandlerWrites(_, _, _, _, _)
HandlerWrites(pairs, r, i, ord, fail) ==
    IF i > Len(pairs) THEN WriteNoMatch(NewWriter, r, fail)
    ELSE IF matches(r, pairs[i].request) THEN WriteMatch(NewWriter, pairs[i], ord, fail)
    ELSE HandlerWrites(pairs, r, i + 1, ord, fail)

\* a fixture with an empty Content-Type and another header
PairEmptyType ==
    FixturePair(<<>>, 200, (ContentType :> <<>>) @@ (<<"X-Fixture">> :> <<"skip">>), BodyCompact)

WriterFixtures == Fixtures \cup {<<PairEmptyType>>}

InitWriter ==
    /\ pc = "serve"
    /\ counters = <<>>
    /\ CaptureIdle
    /\ UnitsIdle
    /\ ssSim \in WriterFixtures
    /\ mu = 0
    /\ requests = <<>>
    /\ hpc = <<>>
    /\ hreq = <<>>
    /\ hidx = <<>>
    /\ htmp = <<>>
    /\ hresp = <<>>
    /\ rdpc = "idle"
    /\ snaps = <<>>

\* handler(w, r) from entry to return; fail: the client is gone at w.Write
Respond(r, ord, fail) ==
    /\ pc = "serve"
    /\ Len(replies) < MaxServed
    /\ requests' = Append(requests, RecordedRequest(r))
    /\ replies' = Append(replies, [req |-> r, w |-> HandlerWrites(ssSim, r, 1, ord, fail)])
    /\ UNCHANGED <<pc, rtPairs, exchanges, failures, rtCall, counters, disk, saveErr, loaded>>
    /\ UNCHANGED <<ssSim, mu, hpc, hreq, hidx, htmp, hresp, rdpc, snaps>>
    /\ UNCHANGED unitVars

NextWriter == \E r \in InboundRequests, ord \in RangeOrders, fail \in BOOLEAN : Respond(r, ord, fail)

SpecWriter == InitWriter /\ [][NextWriter]_vars

-----------------------------------------------------------------------------
(* Properties of the capture tool (checked under Spec)                     *)

Redacted == pc \in {"redacted", "saved", "loaded", "failed"}

\* the Pair run() holds for an exchange before the redaction
PairBeforeRedaction(ex) ==
    [description |-> ScenarioName,
     request |-> CapturedPair(ex.req, ex.resp).request,
     response |-> CapturedPair(ex.req, ex.resp).response]

\* the exchange holds nothing that the redaction rewrites
NothingToRedact(ex) ==
    \A ord \in RangeOrders :
        redactPair(PairBeforeRedaction(ex), <<>>, ord).pair = PairBeforeRedaction(ex)

\* C1: an exchange that holds nothing the redaction rewrites, once captured,
\* redacted, saved, loaded and served, is replayed to the client that sends
\* the original request with the original status and byte-identical body.
RoundTripReproducesExchange ==
    \A k \in DOMAIN replies : \A i \in DOMAIN exchanges :
        (exchanges[i].req = replies[k].req /\ NothingToRedact(exchanges[i]))
            => /\ replies[k].resp.status = exchanges[i].resp.status
               /\ replies[k].resp.body = exchanges[i].resp.body

\* the parts of a Pair the fixture file is written from
PairTexts(p) ==
    {p.description, p.request.method, p.request.path, p.response.body}
    \cup DOMAIN p.request.query
    \cup {p.request.query[k] : k \in DOMAIN p.request.query}
    \cup {p.response.headers[k] : k \in DOMAIN p.response.headers}

\* C2: after RedactSimulation no part of a pair holds the access token or the
\* real domain.
TokenNeverLeaks ==
    Redacted =>
        \A i \in DOMAIN rtPairs : \A part \in PairTexts(rtPairs[i]) :
            ~Contains(part, Token) /\ ~Contains(part, RealDomain)

\* capture stored the body of the exchange as a JSON string
StoredAsString(ex) ==
    ~(Contains(HeaderGet(ex.resp.header, ContentType), <<"json">>) \/ isJSON(ex.resp.body))

\* the document with the domain substituted and every Description="..."
\* content replaced by the literal, all else unchanged
XMLRedaction(doc) == redactXMLContent(replaceDomain(doc))

\* C3: a non-JSON body stored as a JSON string comes out of the redaction
\* as the original document with the domain substituted and the content of
\* every Description attribute replaced by "Redacted description".
XMLDescriptionsRedacted ==
    Redacted =>
        \A i \in DOMAIN rtPairs :
            StoredAsString(exchanges[i])
                => BodyBytes(rtPairs[i].response.body) = XMLRedaction(exchanges[i].resp.body)

\* C4: the Body of every recorded Pair is a valid JSON document, before and
\* after the redaction.
BodyAlwaysValidJSON ==
    \A i \in DOMAIN rtPairs : Valid(rtPairs[i].response.body)

\* C5: BodyBytes of the Body that RoundTrip stored is the response body the
\* Base transport delivered.
WrapUnwrapLossless ==
    pc = "capture" =>
        \A i \in DOMAIN rtPairs :
            BodyBytes(rtPairs[i].response.body) = exchanges[i].resp.body

-----------------------------------------------------------------------------
(* Properties of the replay server (checked under SpecServer)              *)

Done(h) == hpc[h] = "done"

\* the handler answered from the pair at hidx
Matched(h) == Done(h) /\ hidx[h] \in DOMAIN ssSim

\* the handler answered with the 404 diagnostic
Unmatched(h) == Done(h) /\ hidx[h] \notin DOMAIN ssSim

\* the value a request carries for a parameter: the first one written, the
\* empty string when the request does not carry the parameter
ParamValue(q, key) ==
    IF \A i \in DOMAIN q : q[i][1] # key THEN <<>>
    ELSE q[CHOOSE i \in DOMAIN q : q[i][1] = key /\ \A j \in DOMAIN q : q[j][1] = key => i <= j][2]

\* methods equal, paths equal, every constrained parameter equal
SubsetMatch(r, fx) ==
    /\ r.method = fx.method
    /\ r.path = fx.path
    /\ \A key \in DOMAIN fx.query : ParamValue(r.query, key) = fx.query[key]

\* C6: the pair a handler answers from satisfies the subset match, every pair
\* it passed over does not; the request's other parameters play no part.
QuerySubsetMatching ==
    \A h \in Handlers :
        hpc[h] \in {"scan", "done"} =>
            /\ \A j \in DOMAIN ssSim : j < hidx[h] => ~SubsetMatch(hreq[h], ssSim[j].request)
            /\ Matched(h) => SubsetMatch(hreq[h], ssSim[hidx[h]].request)

\* a request with a parameter the fixture does not constrain was matched, and
\* another fixture pair was passed over
QuerySubsetMatchingWitness ==
    \E h \in Handlers :
        /\ Matched(h)
        /\ hidx[h] > 1
        /\ DOMAIN ssSim[hidx[h]].request.query # {}
        /\ ~(QueryKeys(hreq[h].query) \subseteq DOMAIN ssSim[hidx[h]].request.query)

\* C7: a request is only answered from a pair when it carries every
\* parameter the pair's Query names.
ConstrainedKeysPresent ==
    \A h \in Handlers :
        Matched(h) => DOMAIN ssSim[hidx[h]].request.query \subseteq QueryKeys(hreq[h].query)

\* the response is the fixture's: status (200 for 0), unwrapped body, its
\* headers and at most a defaulted Content-Type
RepliesWith(resp, fx) ==
    /\ resp.status = (IF fx.status = 0 THEN 200 ELSE fx.status)
    /\ resp.body = BodyBytes(fx.body)
    /\ \A k \in DOMAIN fx.headers : k \in DOMAIN resp.header /\ resp.header[k] = fx.headers[k]
    /\ DOMAIN resp.header \subseteq DOMAIN fx.headers \cup {ContentType}

LowestMatch(r, i) ==
    /\ i \in DOMAIN ssSim
    /\ matches(r, ssSim[i].request)
    /\ \A j \in 1..(i - 1) : ~matches(r, ssSim[j].request)

\* C8: the response is that of the matching pair with the lowest index.
FirstMatchWins ==
    \A h \in Handlers : \A i \in DOMAIN ssSim :
        (Done(h) /\ LowestMatch(hreq[h], i)) => RepliesWith(hresp[h], ssSim[i].response)

\* a request that two pairs with different responses match was answered
FirstMatchWinsWitness ==
    \E h \in Handlers : \E i, j \in DOMAIN ssSim :
        /\ Done(h)
        /\ LowestMatch(hreq[h], i)
        /\ i < j
        /\ matches(hreq[h], ssSim[j].request)
        /\ ssSim[i].response # ssSim[j].response

NoPairMatches(r) == \A i \in DOMAIN ssSim : ~matches(r, ssSim[i].request)

\* C9: when no pair matches, the response is 404, text/plain, and its body
\* names the method and the path with the query; nothing of a fixture is in it.
NoMatchDiagnostic ==
    \A h \in Handlers :
        (Done(h) /\ NoPairMatches(hreq[h])) =>
            /\ hresp[h].status = 404
            /\ hresp[h].header = (ContentType :> <<"text/", "plain">>)
            /\ Contains(hresp[h].body, hreq[h].method)
            /\ Contains(hresp[h].body,
                        hreq[h].path \o <<"?">> \o EncodeQuery(hreq[h].query, 1))
                 \/ (hreq[h].query = <<>> /\ Contains(hresp[h].body, hreq[h].path))

\* a request with a query got the 404 from a server that has fixtures
NoMatchDiagnosticWitness ==
    \E h \in Handlers :
        /\ Done(h)
        /\ NoPairMatches(hreq[h])
        /\ ssSim # <<>>
        /\ hreq[h].query # <<>>
        /\ hresp[h].status = 404

Count(log, rec) == Cardinality({i \in DOMAIN log : log[i] = rec})

\* one entry per handled request, with its method, path and query
OneEntryPerRequest(log) ==
    /\ Len(log) = NumHandlers
    /\ \A h \in Handlers :
          Count(log, [Method |-> hreq[h].method, Path |-> hreq[h].path, Query |-> hreq[h].query])
              = Cardinality({g \in Handlers : hreq[g] = hreq[h]})

\* C10: once every handler has completed, the log, and the slice a Requests()
\* call then returns, hold exactly one entry per inbound request.
RequestLogComplete ==
    (\A h \in Handlers : Done(h)) =>
        /\ OneEntryPerRequest(requests)
        /\ rdpc = "unlock" => OneEntryPerRequest(snaps[Len(snaps)])

\* concurrent handlers, one answered 404 and one from a fixture, have completed
\* and Requests() has returned the log
RequestLogCompleteWitness ==
    /\ \A h \in Handlers : Done(h)
    /\ rdpc = "unlock"
    /\ Len(snaps[Len(snaps)]) = NumHandlers
    /\ \E g, h \in Handlers : Unmatched(g) /\ Matched(h)
-----------------------------------------------------------------------------
(* Properties of the RecordingTransport (checked under SpecTransport)      *)

\* the error the Base transport's answer carries: its own, or the one the
\* read of the body ends with
ErrorOf(out) == IF out.err # "" THEN out.err ELSE out.body.fail

\* C11: a RoundTrip call that fails returns the error and no response, and
\* leaves Pairs exactly as it was.
FailedRoundTripRecordsNothing ==
    [][failures' = failures + 1 =>
          /\ rtPairs' = rtPairs
          /\ rtCall'.resp = NilResponse
          /\ rtCall'.err # ""
          /\ rtCall'.err = ErrorOf(rtCall'.out)]_vars

\* after a recorded exchange, the read of a response body has failed
FailedRoundTripRecordsNothingWitness ==
    /\ failures = 1
    /\ rtPairs # <<>>
    /\ rtCall.out.err = ""
    /\ rtCall.err = "unexpected EOF"
\* the request sent again with another token and another format value
Replayed(req, token, format) ==
    [method |-> req.method, path |-> req.path,
     query |-> [i \in DOMAIN req.query |->
                   IF req.query[i][1] = AccessToken THEN <<AccessToken, token>>
                   ELSE IF req.query[i][1] = Format THEN <<Format, format>>
                   ELSE req.query[i]]]

ReplayTokens == {Token, <<"other-token">>, <<>>}

ReplayFormats == {<<"json">>, <<"xml">>, <<>>}

\* C17: the Query recorded for a successful RoundTrip has exactly the
\* request's parameter names other than access_token and format, each with the
\* value the request carried; so the recorded request matches the original
\* request sent with any token and any format value.
RecordedQueryFiltered ==
    \A i \in DOMAIN exchanges :
        /\ DOMAIN rtPairs[i].request.query
              = {exchanges[i].req.query[k][1] : k \in DOMAIN exchanges[i].req.query}
                    \ {AccessToken, Format}
        /\ \A key \in DOMAIN rtPairs[i].request.query :
              rtPairs[i].request.query[key] = ParamValue(exchanges[i].req.query, key)
        /\ \A token \in ReplayTokens : \A format \in ReplayFormats :
              matches(Replayed(exchanges[i].req, token, format), rtPairs[i].request)

\* a request with a token and a format was recorded with no parameter, and a
\* request with a token and two other parameters with these two
RecordedQueryFilteredWitness ==
    /\ \E i \in DOMAIN exchanges :
          /\ {AccessToken, Format} \subseteq QueryKeys(exchanges[i].req.query)
          /\ DOMAIN rtPairs[i].request.query = {}
    /\ \E i \in DOMAIN exchanges :
          /\ AccessToken \in QueryKeys(exchanges[i].req.query)
          /\ Cardinality(DOMAIN rtPairs[i].request.query) = 2

\* the last RoundTrip call returned a response
CallSucceeded == rtCall.base # <<>> /\ rtCall.err = "" /\ ~rtCall.resp.nil

\* C18: the Base transport received the caller's request, once; the response
\* returned has the status and the headers of the Base response, and reading
\* its body to the end gives exactly the bytes of the Base body, without error.
RoundTripPassthrough ==
    /\ rtCall.base # <<>> =>
          /\ Len(rtCall.base) = 1
          /\ rtCall.err = "" => rtCall.base[1] = exchanges[Len(exchanges)].req
    /\ CallSucceeded =>
          /\ rtCall.resp.status = exchanges[Len(exchanges)].resp.status
          /\ rtCall.resp.header = exchanges[Len(exchanges)].resp.header
          /\ ~rtCall.resp.body.closed
          /\ ReadAll(rtCall.resp.body)
                = [bytes |-> exchanges[Len(exchanges)].resp.body, err |-> ""]

\* a call returned a response with a body that is not empty
RoundTripPassthroughWitness ==
    /\ CallSucceeded
    /\ exchanges[Len(exchanges)].resp.body # <<>>
    /\ rtCall.resp.status = 200

\* C19: rt.Pairs has one Pair per RoundTrip call that returned without error,
\* the i-th Pair with the method, path, status and body (as is, or as a JSON
\* string) of the i-th such call; BuildSimulation keeps number and order.
PairsFollowCalls ==
    /\ Len(rtPairs) = Len(exchanges)
    /\ \A i \in DOMAIN exchanges :
          /\ rtPairs[i].request.method = exchanges[i].req.method
          /\ rtPairs[i].request.path = exchanges[i].req.path
          /\ rtPairs[i].response.status = exchanges[i].resp.status
          /\ rtPairs[i].response.body
                \in {exchanges[i].resp.body, EncodeString(exchanges[i].resp.body)}

\* BuildSimulation returned two pairs of different calls, after a call that failed
PairsFollowCallsWitness ==
    /\ pc = "built"
    /\ failures > 0
    /\ Len(rtPairs) = 2
    /\ exchanges[1].req.path # exchanges[2].req.path
    /\ exchanges[1].resp.body # exchanges[2].resp.body

-----------------------------------------------------------------------------
(* Properties of the redaction (checked under SpecRedact)                  *)

RECURSIVE NameFields(_, _)
RECURSIVE MemberNames(_, _, _)
RECURSIVE ElementNames(_, _, _)

\* the non-empty string Name / name fields of a JSON value and what stands in
\* their place in the redacted value, with the tag of the enclosing object
NameFields(vin, vout) ==
    CASE vin.t = "obj" -> MemberNames(vin, vout, SortedKeys(DOMAIN vin.m))
      [] vin.t = "arr" -> ElementNames(vin.a, vout.a, 1)
      [] OTHER -> <<>>

MemberNames(vin, vout, keys) ==
    IF keys = <<>> THEN <<>>
    ELSE (IF Head(keys) \in {<<"Name">>, <<"name">>} /\ IsNonEmptyString(vin.m[Head(keys)])
          THEN <<[tag |-> ResourceTypeOf(vin.m),
                  before |-> vin.m[Head(keys)].s,
                  after |-> vout.m[Head(keys)].s]>>
          ELSE NameFields(vin.m[Head(keys)], vout.m[Head(keys)]))
         \o MemberNames(vin, vout, Tail(keys))

ElementNames(ain, aout, i) ==
    IF i > Len(ain) THEN <<>>
    ELSE NameFields(ain[i], aout[i]) \o ElementNames(ain, aout, i + 1)

\* the Name fields of all pairs of one RedactSimulation call, pair by pair
RECURSIVE RunNames(_, _)
RunNames(run, i) ==
    IF i > Len(run.in) THEN <<>>
    ELSE NameFields(Unmarshal(run.in[i].response.body).v,
                    Unmarshal(run.out[i].response.body).v)
         \o RunNames(run, i + 1)

NamesOfRun(j) == RunNames(rdRuns[j], 1)

StructuralTypes ==
    {<<"EntityState">>, <<"EntityType">>, <<"Priority">>, <<"Role">>, <<"Process">>,
     <<"Workflow">>}

\* "Test <type> <k>", with Entity for an object without a tag
Placeholder(tag, k) ==
    <<"Test ">> \o (IF tag = <<>> THEN <<"Entity">> ELSE tag) \o <<" ", ToString(k)>>

IsPlaceholder(s, tag) == \E k \in 1..(2 * MaxRuns) : s = Placeholder(tag, k)

CountedType(tag) == IF tag = <<>> THEN <<"Entity">> ELSE tag

\* the Name fields of call j that were replaced under the counter of a type
ReplacedOfType(j, type) ==
    {n \in DOMAIN NamesOfRun(j) :
        /\ NamesOfRun(j)[n].tag \notin StructuralTypes
        /\ CountedType(NamesOfRun(j)[n].tag) = type}

PlaceholdersOf(j) ==
    {NamesOfRun(j)[n].after : n \in {m \in DOMAIN NamesOfRun(j) :
                                        NamesOfRun(j)[m].tag \notin StructuralTypes}}

\* C13: a call starts from empty counters or from those the call before left;
\* the Names it replaces for a type get the numbers that follow the counter of
\* the type, one each, and the counter ends at the last of them; without a
\* reset in between, two calls generate different placeholders.
PlaceholderNumbering ==
    \A j \in DOMAIN rdRuns :
        /\ rdRuns[j].c0 = <<>> \/ (j > 1 /\ rdRuns[j].c0 = rdRuns[j - 1].c1)
        /\ \A n \in DOMAIN NamesOfRun(j) :
              NamesOfRun(j)[n].tag \notin StructuralTypes =>
                /\ {NamesOfRun(j)[m].after :
                        m \in ReplacedOfType(j, CountedType(NamesOfRun(j)[n].tag))}
                   = {Placeholder(NamesOfRun(j)[n].tag,
                                  CounterOf(rdRuns[j].c0, CountedType(NamesOfRun(j)[n].tag)) + k) :
                        k \in 1..Cardinality(ReplacedOfType(j, CountedType(NamesOfRun(j)[n].tag)))}
                /\ CounterOf(rdRuns[j].c1, CountedType(NamesOfRun(j)[n].tag))
                   = CounterOf(rdRuns[j].c0, CountedType(NamesOfRun(j)[n].tag))
                     + Cardinality(ReplacedOfType(j, CountedType(NamesOfRun(j)[n].tag)))
        /\ (j > 1 /\ rdRuns[j].c0 # <<>>) => PlaceholdersOf(j) \cap PlaceholdersOf(j - 1) = {}

\* two pairs with the same UserStory Name got "Test UserStory 1" and
\* "Test UserStory 2", and the next call, without a reset, "Test UserStory 3"
PlaceholderNumberingWitness ==
    /\ Len(rdRuns) = 2
    /\ rdRuns[2].c0 # <<>>
    /\ Len(NamesOfRun(1)) = 2
    /\ NamesOfRun(1)[1].before = NamesOfRun(1)[2].before
    /\ NamesOfRun(1)[1].after = Placeholder(<<"UserStory">>, 1)
    /\ NamesOfRun(1)[2].after = Placeholder(<<"UserStory">>, 2)
    /\ \E n \in DOMAIN NamesOfRun(2) : NamesOfRun(2)[n].after = Placeholder(<<"UserStory">>, 3)

\* C22: RedactSimulation returns as many Pairs as it was given, in the same
\* order, each with its Description, Method, Path and Status and with the
\* keys of its Query and of its Headers.
PairStructureKept ==
    \A j \in DOMAIN rdRuns :
        /\ Len(rdRuns[j].out) = Len(rdRuns[j].in)
        /\ \A i \in DOMAIN rdRuns[j].in :
              /\ rdRuns[j].out[i].description = rdRuns[j].in[i].description
              /\ rdRuns[j].out[i].request.method = rdRuns[j].in[i].request.method
              /\ rdRuns[j].out[i].request.path = rdRuns[j].in[i].request.path
              /\ rdRuns[j].out[i].response.status = rdRuns[j].in[i].response.status
              /\ DOMAIN rdRuns[j].out[i].request.query = DOMAIN rdRuns[j].in[i].request.query
              /\ DOMAIN rdRuns[j].out[i].response.headers
                    = DOMAIN rdRuns[j].in[i].response.headers

\* two pairs that differ in description, method, path and status were
\* redacted, the first with its token and a header value rewritten
PairStructureKeptWitness ==
    \E j \in DOMAIN rdRuns :
        /\ Len(rdRuns[j].in) = 2
        /\ rdRuns[j].in[1].description # rdRuns[j].in[2].description
        /\ rdRuns[j].in[1].request.path # rdRuns[j].in[2].request.path
        /\ rdRuns[j].in[1].response.status # rdRuns[j].in[2].response.status
        /\ rdRuns[j].in[1].request.query[AccessToken] = Token
        /\ rdRuns[j].out[1].request.query[AccessToken] = <<"REDACTED">>
        /\ rdRuns[j].out[1].response.headers # rdRuns[j].in[1].response.headers

RECURSIVE SameShape(_, _)

\* both values have the same JSON type; objects the same keys, arrays the
\* same length, with members and elements of the same shape; booleans,
\* numbers and null are equal
SameShape(vin, vout) ==
    /\ vout.t = vin.t
    /\ CASE vin.t = "obj" -> /\ DOMAIN vout.m = DOMAIN vin.m
                             /\ \A key \in DOMAIN vin.m : SameShape(vin.m[key], vout.m[key])
         [] vin.t = "arr" -> /\ Len(vout.a) = Len(vin.a)
                             /\ \A i \in DOMAIN vin.a : SameShape(vin.a[i], vout.a[i])
         [] vin.t = "num" -> vout.d = vin.d
         [] vin.t = "bool" -> vout.b = vin.b
         [] OTHER -> TRUE

ShapeKept(pin, pout) == pin.ok => (pout.ok /\ SameShape(pin.v, pout.v))

\* C23: the redaction of a JSON value has the shape of the value at every
\* depth: same keys, same lengths and element order, same JSON types, and
\* booleans, numbers and null as they were.
ShapePreserved ==
    \A j \in DOMAIN rdRuns : \A i \in DOMAIN rdRuns[j].in :
        ShapeKept(Unmarshal(rdRuns[j].in[i].response.body),
                  Unmarshal(rdRuns[j].out[i].response.body))

\* a body with arrays in arrays, objects in arrays and values of every JSON
\* type was redacted, and the result differs from it
ShapePreservedWitness ==
    \E j \in DOMAIN rdRuns :
        /\ rdRuns[j].in[1].response.body = BodyShapes
        /\ rdRuns[j].out[1].response.body # BodyShapes
        /\ Contains(rdRuns[j].out[1].response.body, <<"Redacted text">>)

RECURSIVE ValueFields(_, _)
RECURSIVE ElementValues(_, _, _)

\* the Value fields of the objects of a JSON value and what stands in their
\* place in the redacted value, and whether the enclosing object has a tag
ValueFields(vin, vout) ==
    CASE vin.t = "obj" ->
            {[tagged |-> DOMAIN vin.m \cap {<<"ResourceType">>, <<"resourceType">>} # {},
              before |-> vin.m[key], after |-> vout.m[key]] :
                key \in DOMAIN vin.m \cap {<<"Value">>}}
            \cup UNION {ValueFields(vin.m[key], vout.m[key]) : key \in DOMAIN vin.m}
      [] vin.t = "arr" -> ElementValues(vin.a, vout.a, 1)
      [] OTHER -> {}

ElementValues(ain, aout, i) ==
    IF i > Len(ain) THEN {}
    ELSE ValueFields(ain[i], aout[i]) \cup ElementValues(ain, aout, i + 1)

ValuesReplaced(pin, pout) ==
    pin.ok =>
        \A f \in ValueFields(pin.v, pout.v) :
            ~f.tagged => (f.after.t = "str" /\ f.after.s = <<"Redacted value">>)

\* C24: in an object without ResourceType and resourceType, the Value field
\* is the literal "Redacted value" after the redaction, whatever it held.
UntaggedValueReplaced ==
    \A j \in DOMAIN rdRuns : \A i \in DOMAIN rdRuns[j].in :
        ValuesReplaced(Unmarshal(rdRuns[j].in[i].response.body),
                       Unmarshal(rdRuns[j].out[i].response.body))

\* no header value of the pair holds the real domain
HeadersRedacted(pair) ==
    \A key \in DOMAIN pair.response.headers : ~Contains(pair.response.headers[key], RealDomain)

\* C25: a body that json.Unmarshal rejects (the empty body too) comes out of
\* the redaction byte for byte; the headers of its Pair and the Pairs after
\* it are redacted all the same.
UnparsedBodyKept ==
    \A j \in DOMAIN rdRuns : \A i \in DOMAIN rdRuns[j].in :
        ~Unmarshal(rdRuns[j].in[i].response.body).ok =>
            /\ rdRuns[j].out[i].response.body = rdRuns[j].in[i].response.body
            /\ HeadersRedacted(rdRuns[j].out[i])
            /\ \A k \in (i + 1)..Len(rdRuns[j].in) :
                  /\ HeadersRedacted(rdRuns[j].out[k])
                  /\ ~Contains(rdRuns[j].out[k].response.body, <<"Secret plan">>)

\* a pair with a broken body and the domain in a header, followed by a pair
\* with an entity name, was redacted; so was one with an empty body
UnparsedBodyKeptWitness ==
    /\ \E j \in DOMAIN rdRuns :
          /\ rdRuns[j].in[1].response.body = BodyBroken
          /\ ~HeadersRedacted(rdRuns[j].in[1])
          /\ Len(rdRuns[j].in) = 2
          /\ Contains(rdRuns[j].in[2].response.body, <<"Secret plan">>)
          /\ Contains(rdRuns[j].out[2].response.body, <<"Test ", "UserStory", " ", "1">>)
    /\ \E j \in DOMAIN rdRuns :
          /\ rdRuns[j].in[1].response.body = <<>>
          /\ rdRuns[j].out[1].response.body = <<>>

\* C16: starting from reset counters, redacting the same Simulation twice
\* yields identical output, placeholder numbers included.
RedactionDeterministic ==
    \A i \in DOMAIN rdRuns : \A j \in DOMAIN rdRuns :
        (rdRuns[i].in = rdRuns[j].in /\ rdRuns[i].c0 = <<>> /\ rdRuns[j].c0 = <<>>)
            => rdRuns[i].out = rdRuns[j].out

-----------------------------------------------------------------------------
(* Statelessness of the replay server (checked under SpecServer)           *)

\* C20: no step changes the Simulation's Pairs, and two requests that are
\* equal get equal responses (status, headers, body), whatever was served
\* before or at the same time.
ServingStateless ==
    /\ [][ssSim' = ssSim]_vars
    /\ [](\A h1 \in Handlers : \A h2 \in Handlers :
            (hpc[h1] = "done" /\ hpc[h2] = "done" /\ hreq[h1] = hreq[h2])
                => hresp[h1] = hresp[h2])

\* two handlers answered the same request from a pair, both requests logged
ServingStatelessWitness ==
    \E h1 \in Handlers : \E h2 \in Handlers :
        /\ h1 # h2
        /\ hpc[h1] = "done" /\ hpc[h2] = "done"
        /\ hreq[h1] = hreq[h2]
        /\ hidx[h1] \in DOMAIN ssSim
        /\ hresp[h1].status = 200
        /\ Len(requests) = 2

-----------------------------------------------------------------------------
(* Liveness of the replay server (checked under SpecServerLive)            *)

\* C14: every request the server took is answered, and the answer, once
\* written, is the only one.
AlwaysResponds ==
    /\ \A h \in Handlers : (hpc[h] # "idle") ~> (hpc[h] = "done")
    /\ [][\A h \in Handlers :
            /\ hpc[h] = "done" => hpc'[h] = "done"
            /\ hresp'[h] # hresp[h] => (hpc[h] = "scan" /\ hpc'[h] = "done")]_vars

\* a request was answered with the 404 while another handler waits for the
\* lock that a Requests() call holds
AlwaysRespondsWitness ==
    \E g, h \in Handlers :
        /\ hpc[g] = "done"
        /\ hresp[g].status = 404
        /\ hpc[h] = "lock"
        /\ mu = Reader

-----------------------------------------------------------------------------
(* Properties of LoadSimulationsFromDir (checked under SpecDir)            *)

\* the regular files of the directory whose name ends in .json
JSONFiles == {e \in dir : ~e.isDir /\ e.name[Len(e.name)] = ".json"}

\* the pairs array of a fixture file
PairsOfFile(e) == LoadSimulationResult([exists |-> TRUE, data |-> e.data]).sim.pairs

RECURSIVE PairCount(_)
PairCount(files) ==
    IF files = {} THEN 0
    ELSE Len(PairsOfFile(CHOOSE e \in files : TRUE))
         + PairCount(files \ {CHOOSE e \in files : TRUE})

\* the number of pairs in the files whose name sorts before that of e
PairsBefore(e) == PairCount({f \in JSONFiles : TextLess(f.name, e.name)})

\* C15: the Simulation returned holds, for each .json file, its pairs in file
\* order after the pairs of all .json files with a lesser name, and nothing
\* else.
DirPairsConcatenated ==
    (pc = "combined" /\ ~combined.err) =>
        /\ Len(combined.sim.pairs) = PairCount(JSONFiles)
        /\ \A e \in JSONFiles : \A i \in DOMAIN PairsOfFile(e) :
              combined.sim.pairs[PairsBefore(e) + i] = PairsOfFile(e)[i]

\* a directory with two fixture files, a file that is no .json file and a
\* sub-directory was loaded into three pairs
DirPairsConcatenatedWitness ==
    /\ pc = "combined"
    /\ ~combined.err
    /\ {<<"a", ".json">>, <<"b", ".json">>, <<"select", ".txt">>, <<"skip", ".json">>}
          \subseteq {e.name : e \in dir}
    /\ Len(combined.sim.pairs) = 3

\* the .json files of DirEntries that cannot be read or do not hold a Simulation
BadFiles ==
    {e \in JSONFiles :
        e.name \in {<<"Next", ".json">>, <<"take", ".json">>, <<"where", ".json">>}}

\* e is the bad file with the least name
FirstBad(e) == e \in BadFiles /\ \A f \in BadFiles : f = e \/ TextLess(e.name, f.name)

\* C27: a directory with a .json file that cannot be read or parsed loads
\* into nil and an error naming the path of the first such file; no file
\* after it is opened; a directory without such a file loads without error.
LoadAllOrNothing ==
    pc = "combined" =>
        /\ combined.err = (BadFiles # {})
        /\ combined.err =>
              /\ combined.sim = NoSim
              /\ \E e \in BadFiles :
                    /\ FirstBad(e)
                    /\ Contains(combined.msg, DirPath \o <<"/">> \o e.name)
                    /\ combined.opened # <<>>
                    /\ combined.opened[Len(combined.opened)] = e.name

\* a load failed on a broken file after two good files, with a file that
\* does not hold a Simulation still to come
LoadAllOrNothingWitness ==
    /\ pc = "combined"
    /\ combined.err
    /\ combined.opened = <<<<"a", ".json">>, <<"b", ".json">>, <<"take", ".json">>>>
    /\ \E e \in dir : e.name = <<"where", ".json">>

-----------------------------------------------------------------------------
(* Properties of run() (checked under SpecRun)                             *)

\* the calls run() made for scenario i, in order
RECURSIVE CallsOf(_, _)
CallsOf(i, k) ==
    IF k > Len(trace) THEN <<>>
    ELSE (IF trace[k].sc = i THEN <<trace[k]>> ELSE <<>>) \o CallsOf(i, k + 1)

Ops(calls) == [k \in DOMAIN calls |-> calls[k].op]

IsPrefix(s, t) == Len(s) <= Len(t) /\ s = SubSeq(t, 1, Len(s))

\* the calls of a scenario: capture, ResetCounters, RedactSimulation,
\* SaveSimulation, in this order, nothing after a capture that failed, the
\* redaction from empty counters, the Simulation saved the one redacted
PipelineOrder(calls) ==
    /\ IsPrefix(Ops(calls), <<"capture", "reset", "redact", "save">>)
    /\ (calls # <<>> /\ calls[1].err) => Len(calls) = 1
    /\ Len(calls) >= 3 => calls[3].c0 = <<>>
    /\ Len(calls) >= 4 => calls[4].sim = calls[3].out

\* the fixture file of scenario i was written by a SaveSimulation call of
\* the scenario that returned no error
WrittenBySave(i, calls) ==
    (\E e \in dir : e.name = FixtureName(i)) =>
        /\ Len(calls) = 4
        /\ ~calls[4].err
        /\ \E e \in dir : /\ e.name = FixtureName(i)
                           /\ e.data = MarshalIndentSimulation(calls[4].sim).data

\* C21: every scenario goes through capture, ResetCounters, RedactSimulation,
\* SaveSimulation in this order, each at most once; the counters are empty
\* when the redaction starts; a fixture file is written only by the save of
\* a redacted Simulation, and none when the capture returned an error.
RunPipelineOrdered ==
    \A i \in 1..NumScenarios :
        /\ PipelineOrder(CallsOf(i, 1))
        /\ WrittenBySave(i, CallsOf(i, 1))

\* the first scenario's capture failed and left no file; the second one's
\* file was written, with a placeholder numbered 1
RunPipelineOrderedWitness ==
    /\ pc = "done"
    /\ trace[1] = [sc |-> 1, op |-> "capture", err |-> TRUE]
    /\ Len(trace) = 5
    /\ \A e \in dir : e.name # FixtureName(1)
    /\ \E e \in dir : e.name = FixtureName(2) /\ Contains(e.data, <<"Test ", "UserStory", " ", "1">>)

-----------------------------------------------------------------------------
(* Properties of the handler's writes (checked under SpecWriter)           *)

\* 1 when the handler has to set the Content-Type itself, else 0
TypeDefaulted(headers) == IF HeaderGet(headers, ContentType) = <<>> THEN 1 ELSE 0

SetCall(k, v) == [op |-> "Set", key |-> k, val |-> v]

\* the calls on the ResponseWriter, for the fixture response fx: its headers,
\* then the default Content-Type if it set none, then the status, then the
\* unwrapped body
WritesInOrder(calls, fx, n, d) ==
    /\ Len(calls) = n + d + 2
    /\ {calls[k] : k \in 1..n} = {SetCall(key, fx.headers[key]) : key \in DOMAIN fx.headers}
    /\ d = 1 => calls[n + 1] = SetCall(ContentType, <<"application/", "json">>)
    /\ calls[n + d + 1] = [op |-> "WriteHeader", code |-> IF fx.status = 0 THEN 200 ELSE fx.status]
    /\ calls[n + d + 2].op = "Write"
    /\ calls[n + d + 2].data = BodyBytes(fx.body)

\* C26: on a match the handler sets the fixture's headers, then Content-Type
\* application/json exactly if the fixture set none or an empty one, then
\* writes the status (200 for 0) and then the unwrapped body; this holds of
\* every request, those served after a write that failed included.
MatchWritesInOrder ==
    \A k \in DOMAIN replies : \A i \in DOMAIN ssSim :
        LowestMatch(replies[k].req, i) =>
            /\ WritesInOrder(replies[k].w.calls, ssSim[i].response,
                             Cardinality(DOMAIN ssSim[i].response.headers),
                             TypeDefaulted(ssSim[i].response.headers))
            /\ replies[k].w.sent[ContentType]
                  = (IF TypeDefaulted(ssSim[i].response.headers) = 1
                     THEN <<"application/", "json">>
                     ELSE ssSim[i].response.headers[ContentType])

\* the write of a body failed, and the next request was answered from a
\* fixture with an empty Content-Type and another header, body included
MatchWritesInOrderWitness ==
    /\ Len(replies) = 2
    /\ ssSim = <<PairEmptyType>>
    /\ Len(replies[1].w.calls) = 5
    /\ replies[1].w.calls[5].err
    /\ replies[1].w.body = <<>>
    /\ Len(replies[2].w.calls) = 5
    /\ ~replies[2].w.calls[5].err
    /\ replies[2].w.body = BodyCompact

-----------------------------------------------------------------------------
(* UserResolver: @mentions in a text resolved to user references.  A text   *)
(* is a sequence of atoms: a run of letters and digits is one atom, every   *)
(* other character is an atom of its own.                                   *)

\* [a-zA-Z][a-zA-Z0-9]*
NameAtoms == {"timo", "Timo", "litzius", "hello", "hi", "plain", "text", "and", "again", "x"}

\* [\s(]
Separators == {" ", "\n", "("}

\* (?:\.[a-zA-Z][a-zA-Z0-9]*)* from the name atom at i: where the name ends
RECURSIVE NameEnd(_, _)
NameEnd(text, i) ==
    IF i + 2 <= Len(text) /\ text[i + 1] = "." /\ text[i + 2] \in NameAtoms
    THEN NameEnd(text, i + 2)
    ELSE i

\* mentionRe ms with its "@" at p
MentionAt(text, p) ==
    /\ text[p] = "@"
    /\ p = 1 \/ text[p - 1] \in Separators
    /\ p < Len(text)
    /\ text[p + 1] \in NameAtoms

\* mentionRe.FindAllStringSubmatchIndex(text, -1), searched from p on: of
\* each match the place of the "@" and the end of group 1
RECURSIVE FindAllFrom(_, _)
FindAllFrom(text, p) ==
    IF p > Len(text) THEN <<>>
    ELSE IF MentionAt(text, p)
    THEN <<[at |-> p, end |-> NameEnd(text, p + 1)]>>
         \o FindAllFrom(text, NameEnd(text, p + 1) + 1)
    ELSE FindAllFrom(text, p + 1)

\* text[m[2]:m[3]]
NameOf(text, m) == SubSeq(text, m.at + 1, m.end)

\* every match gets an entry of its own
RECURSIVE UniqueAll(_, _, _, _)
UniqueAll(text, ms, i, unique) ==
    IF i > Len(ms) THEN unique
    ELSE UniqueAll(text, ms, i + 1, Append(unique, NameOf(text, ms[i])))

\* the names of the ms in the order of their first occurrence
RECURSIVE Unique(_, _, _, _)
Unique(text, ms, i, unique) ==
    IF i > Len(ms) THEN unique
    ELSE IF \E k \in DOMAIN unique : unique[k] = NameOf(text, ms[i])
    THEN Unique(text, ms, i + 1, unique)
    ELSE Unique(text, ms, i + 1, Append(unique, NameOf(text, ms[i])))

LowerAtom(a) == IF a = "Timo" THEN "timo" ELSE a

\* strings.ToLower
ToLower(name) == [i \in DOMAIN name |-> LowerAtom(name[i])]

RECURSIVE TrimLeft(_)
TrimLeft(x) == IF x # <<>> /\ Head(x) = " " THEN TrimLeft(Tail(x)) ELSE x

\* strings.TrimSpace
TrimSpace(x) == Reverse(TrimLeft(Reverse(TrimLeft(x))))

ExactLogin(name) == <<"login=='">> \o name \o <<"'">>

LoginContains(name) == <<"login.contains('">> \o name \o <<"')">>

FirstNameIs(name) == <<"firstName.toLower()=='">> \o ToLower(name) \o <<"'">>

\* the first name is tried before the login
StrategiesFirstNameFirst(name) == <<FirstNameIs(name), ExactLogin(name), LoginContains(name)>>

Strategies(name) == <<ExactLogin(name), LoginContains(name), FirstNameIs(name)>>

\* the parameters of the GeneralUser query for a where clause
V2Query(where) ==
    [entityType |-> "GeneralUser", where |-> where,
     select |-> "id,login,firstName,lastName", take |-> 1]

\* Client.QueryV2 with the instance's answer: the body, or an error if the
\* request failed or the status is 400 or more
QueryV2(answer) ==
    IF answer.fails \/ answer.status >= 400
    THEN [err |-> TRUE, data |-> <<>>]
    ELSE [err |-> FALSE, data |-> answer.body]

ItemTyped(v) ==
    \/ v.t = "null"
    \/ /\ v.t = "obj"
       /\ IntTyped(SubValue(v, "id"))
       /\ StringTyped(SubValue(v, "login"))
       /\ StringTyped(SubValue(v, "firstName"))
       /\ StringTyped(SubValue(v, "lastName"))

ItemsTyped(v) == v.t = "null" \/ (v.t = "arr" /\ \A i \in DOMAIN v.a : ItemTyped(v.a[i]))

\* no error of json.Unmarshal into a v2Response
V2ResponseTyped(r) ==
    r.ok /\ (r.v.t = "null" \/ (r.v.t = "obj" /\ ItemsTyped(SubValue(r.v, "items"))))

\* resp.Items
Items(r) == IF SubValue(r.v, "items").t = "arr" THEN SubValue(r.v, "items").a ELSE <<>>

\* fmt.Sprintf("@user:%s[%s]", u.Login, fullName)
UserRef(u) ==
    <<"@user:">> \o StringField(u, "login") \o <<"[">>
    \o TrimSpace(StringField(u, "firstName") \o <<" ">> \o StringField(u, "lastName"))
    \o <<"]">>

\* the result of lookupUser with the queries sent so far
Looked(resolved, err, sent) == [resolved |-> resolved, err |-> err, sent |-> sent]

RECURSIVE LookupFrom(_, _, _, _)

\* the response to strategy s was decoded
LookupDecoded(name, answers, sent, s, r) ==
    IF ~V2ResponseTyped(r) THEN Looked(<<>>, TRUE, sent)
    ELSE IF Len(Items(r)) > 0 THEN Looked(UserRef(Items(r)[1]), FALSE, sent)
    ELSE LookupFrom(name, answers, sent, s + 1)

\* QueryV2 returned for strategy s
LookupQueried(name, answers, sent, s, q) ==
    IF q.err THEN Looked(<<>>, TRUE, sent)
    ELSE LookupDecoded(name, answers, sent, s, Unmarshal(q.data))

\* lookupUser from strategy s on; the instance answers the n-th query of
\* the call with answers[n]
LookupFrom(name, answers, sent, s) ==
    IF s > Len(Strategies(name)) THEN Looked(<<>>, FALSE, sent)
    ELSE LookupQueried(name, answers, Append(sent, V2Query(Strategies(name)[s])), s,
                       QueryV2(answers[Len(sent) + 1]))

lookupUser(name, answers, sent) == LookupFrom(name, answers, sent, 1)

RECURSIVE LookupAll(_, _, _, _, _)

LookupNext(unique, answers, i, seen, l) ==
    IF l.err THEN [err |-> TRUE, seen |-> seen, sent |-> l.sent]
    ELSE LookupAll(unique, answers, i + 1,
                   Append(seen, [name |-> unique[i], resolved |-> l.resolved]), l.sent)

\* the loop over the unique mentions
LookupAll(unique, answers, i, seen, sent) ==
    IF i > Len(unique) THEN [err |-> FALSE, seen |-> seen, sent |-> sent]
    ELSE LookupNext(unique, answers, i, seen, lookupUser(unique[i], answers, sent))

\* seen[name].resolved
ResolvedOf(seen, name) == seen[CHOOSE k \in DOMAIN seen : seen[k].name = name].resolved

\* result[:atPos] + mi.resolved + result[endPos:]
Spliced(result, m, resolved) ==
    SubSeq(result, 1, m.at - 1) \o resolved \o SubSeq(result, m.end + 1, Len(result))

\* the mentions replaced from the left to the right, n of them to go
RECURSIVE ReplacedFromLeft(_, _, _, _, _)
ReplacedFromLeft(text, ms, seen, n, result) ==
    IF n < 1 THEN result
    ELSE IF ResolvedOf(seen, NameOf(text, ms[Len(ms) - n + 1])) = <<>>
    THEN ReplacedFromLeft(text, ms, seen, n - 1, result)
    ELSE ReplacedFromLeft(text, ms, seen, n - 1,
                          Spliced(result, ms[Len(ms) - n + 1],
                                  ResolvedOf(seen, NameOf(text, ms[Len(ms) - n + 1]))))

\* the mentions replaced from the right to the left
RECURSIVE Replaced(_, _, _, _, _)
Replaced(text, ms, seen, i, result) ==
    IF i < 1 THEN result
    ELSE IF ResolvedOf(seen, NameOf(text, ms[i])) = <<>>
    THEN Replaced(text, ms, seen, i - 1, result)
    ELSE Replaced(text, ms, seen, i - 1,
                  Spliced(result, ms[i], ResolvedOf(seen, NameOf(text, ms[i]))))

Resolved(out, err, seen, sent) ==
    [done |-> TRUE, out |-> out, err |-> err, seen |-> seen, sent |-> sent]

ResolveLooked(text, ms, l) ==
    IF l.err THEN Resolved(<<>>, TRUE, l.seen, l.sent)
    ELSE Resolved(Replaced(text, ms, l.seen, Len(ms), text), FALSE, l.seen, l.sent)

ResolveMatched(text, answers, ms) ==
    IF Len(ms) = 0 THEN Resolved(text, FALSE, <<>>, <<>>)
    ELSE ResolveLooked(text, ms,
                       LookupAll(Unique(text, ms, 1, <<>>), answers, 1, <<>>, <<>>))

ResolveMentionsResult(text, answers) == ResolveMatched(text, answers, FindAllFrom(text, 1))

\* the users the instance knows
UserTimo ==
    <<"{">> \o Str("id") \o <<":", "1", ",">>
    \o Str("login") \o <<":", "\"", "timo", ".", "litzius", "\"", ",">>
    \o Str("firstName") \o <<":">> \o Str("Timo") \o <<",">>
    \o Str("lastName") \o <<":">> \o Str("Litzius") \o <<"}">>

UserNoLastName ==
    <<"{">> \o Str("id") \o <<":", "2", ",">>
    \o Str("login") \o <<":">> \o Str("tl") \o <<",">>
    \o Str("firstName") \o <<":">> \o Str("Timo") \o <<",">>
    \o Str("lastName") \o <<":", "\"", "\"", "}">>

ItemsBody(items) == <<"{">> \o Str("items") \o <<":", "[">> \o items \o <<"]", "}">>

AnswerOf(status, body) == [fails |-> FALSE, status |-> status, body |-> body]

AnswerNone == AnswerOf(200, ItemsBody(<<>>))

AnswerTimo == AnswerOf(200, ItemsBody(UserTimo))

AnswerNoLastName == AnswerOf(200, ItemsBody(UserNoLastName \o <<",">> \o UserTimo))

AnswerDenied == AnswerOf(500, BodyText)

AnswerBroken == AnswerOf(200, BodyBroken)

\* no response at all
AnswerUnreachable == [fails |-> TRUE, status |-> 0, body |-> <<>>]

Answers ==
    {AnswerNone, AnswerTimo, AnswerNoLastName, AnswerDenied, AnswerBroken, AnswerUnreachable}

\* the queries one call can send: three for each of two names
MaxQueries == 6

Texts ==
    { <<"hello", " ", "@", "timo", ".", "litzius">>,
      <<"hi", " ", "@", "timo", "!">>,
      <<"plain", " ", "text">>,
      <<"@", "timo", ".", "litzius", " ", "and", " ", "@", "timo", ".", "litzius", " ", "again">>,
      <<"@", "Timo", " ", "(", "@", "timo", ")", " ", "x", "@", "timo", " ", "@", "7",
        " ", "@", "timo", ".">>,
      <<"@", "timo", ".", "7", " ", "@", "litzius", "\n", "@", "timo">> }

InitMentions ==
    /\ pc = "mentions"
    /\ counters = <<>>
    /\ CaptureIdle
    /\ ServerIdle
    /\ rdRuns = <<>>
    /\ dir = {}
    /\ combined = [err |-> FALSE, sim |-> NoSim]
    /\ scIdx = 0
    /\ trace = <<>>
    /\ held = <<>>
    /\ mText \in Texts
    /\ mAnswers \in [1..MaxQueries -> Answers]
    /\ mSent = <<>>
    /\ mOut = NotCalled

\* ResolveMentions(ctx, text)
ResolveMentions ==
    /\ ~mOut.done
    /\ \E r \in {ResolveMentionsResult(mText, mAnswers)} :
          /\ mOut' = [done |-> TRUE, out |-> r.out, err |-> r.err, seen |-> r.seen]
          /\ mSent' = r.sent
    /\ UNCHANGED <<captureVars, serverVars, rdRuns, dir, combined, runVars,
                   held, mText, mAnswers>>

SpecMentions == InitMentions /\ [][ResolveMentions]_vars

-----------------------------------------------------------------------------
(* ResolveMentions: the queries it sends and the text it returns            *)

\* the instance answered with users, with none, or the query failed
HasItems(a) == a \in {AnswerTimo, AnswerNoLastName}

NoItems(a) == a = AnswerNone

Failing(a) == a \in {AnswerDenied, AnswerBroken, AnswerUnreachable}

\* the reference to the first user of an answer
RefOf(a) ==
    IF a = AnswerTimo
    THEN <<"@user:", "timo", ".", "litzius", "[", "Timo", " ", "Litzius", "]">>
    ELSE <<"@user:", "tl", "[", "Timo", "]">>

\* 1 for a query by exact login, 2 for login contains, 3 for first name
KindOf(q) ==
    IF Head(q.where) = "login=='" THEN 1
    ELSE IF Head(q.where) = "login.contains('" THEN 2
    ELSE 3

\* the name a where clause asks for
NameIn(q) == SubSeq(q.where, 2, Len(q.where) - 1)

\* the name whose lookup sent the j-th query
LookupName(j) == NameIn(mSent[j - (KindOf(mSent[j]) - 1)])

\* the j-th query follows a query of the kind before it, for the same name,
\* that found no user; a query by exact login starts a lookup
InFixedOrder(j) ==
    /\ KindOf(mSent[j]) = 1 =>
          \/ j = 1
          \/ HasItems(mAnswers[j - 1])
          \/ KindOf(mSent[j - 1]) = 3 /\ NoItems(mAnswers[j - 1])
    /\ KindOf(mSent[j]) = 2 =>
          /\ j > 1
          /\ mSent[j - 1].where = ExactLogin(NameIn(mSent[j]))
          /\ NoItems(mAnswers[j - 1])
    /\ KindOf(mSent[j]) = 3 =>
          /\ j > 2
          /\ KindOf(mSent[j - 1]) = 2
          /\ mSent[j].where = FirstNameIs(NameIn(mSent[j - 1]))
          /\ NoItems(mAnswers[j - 1])

\* what follows from the answer to the j-th query
AnswerFollowed(j) ==
    /\ NoItems(mAnswers[j]) /\ KindOf(mSent[j]) < 3 =>
          j < Len(mSent) /\ KindOf(mSent[j + 1]) = KindOf(mSent[j]) + 1
    /\ HasItems(mAnswers[j]) =>
          /\ j < Len(mSent) => KindOf(mSent[j + 1]) = 1
          /\ \E k \in DOMAIN mOut.seen :
                /\ mOut.seen[k].name = LookupName(j)
                /\ mOut.seen[k].resolved = RefOf(mAnswers[j])
    /\ Failing(mAnswers[j]) => j = Len(mSent) /\ mOut.err /\ mOut.out = <<>>

\* C29: the queries of a lookup are sent in the order exact login, login
\* contains, lower-cased first name, each only after the one before found no
\* user; the first answer with a user resolves the name to that user's
\* @user:login[Full Name] and ends the lookup; a name is unresolved only if
\* its three queries found nobody; a failing query is the last one sent and
\* the call returns an error and an empty text.
UserLookupOrder ==
    mOut.done =>
        /\ \A j \in DOMAIN mSent :
              /\ mSent[j] = V2Query(mSent[j].where)
              /\ InFixedOrder(j)
              /\ AnswerFollowed(j)
        /\ mOut.err => mSent # <<>> /\ Failing(mAnswers[Len(mSent)])
        /\ \A k \in DOMAIN mOut.seen :
              /\ \E j \in DOMAIN mSent :
                    mSent[j].where = ExactLogin(mOut.seen[k].name)
              /\ mOut.seen[k].resolved = <<>> =>
                    \E j \in DOMAIN mSent :
                        /\ KindOf(mSent[j]) = 3
                        /\ LookupName(j) = mOut.seen[k].name
                        /\ NoItems(mAnswers[j])

\* one name went unresolved through its three queries and another one was
\* found by its first name
UserLookupOrderWitness ==
    /\ mOut.done
    /\ ~mOut.err
    /\ Len(mSent) = 6
    /\ mOut.seen[1].resolved = <<>>
    /\ mOut.seen[2].resolved = RefOf(AnswerNoLastName)
    /\ mOut.seen[2].name = <<"timo">>
    /\ mSent[6].where = <<"firstName.toLower()=='", "timo", "'">>

\* the names mentioned in the text
MentionNames == {NameOf(mText, FindAllFrom(mText, 1)[i]) : i \in DOMAIN FindAllFrom(mText, 1)}

\* the lookups of a name: its queries by exact login
LookupsOf(name) == {j \in DOMAIN mSent : mSent[j].where = ExactLogin(name)}

\* what a name was resolved to, if it was
ResolvedTo(name) ==
    IF \E k \in DOMAIN mOut.seen : mOut.seen[k].name = name /\ mOut.seen[k].resolved # <<>>
    THEN (CHOOSE r \in {mOut.seen[k].resolved : k \in DOMAIN mOut.seen} :
              \E k \in DOMAIN mOut.seen : mOut.seen[k].name = name /\ mOut.seen[k].resolved = r)
    ELSE <<"@">> \o name

\* the text from p on with every resolved mention replaced, read from the
\* left to the right
RECURSIVE Rewritten(_, _)
Rewritten(text, p) ==
    IF p > Len(text) THEN <<>>
    ELSE IF MentionAt(text, p)
    THEN ResolvedTo(SubSeq(text, p + 1, NameEnd(text, p + 1)))
         \o Rewritten(text, NameEnd(text, p + 1) + 1)
    ELSE <<text[p]>> \o Rewritten(text, p + 1)

\* every name of the text has one lookup, and the text returned is the text
\* with the resolved mentions replaced
LookedUpOnceAndReplaced ==
    /\ \A name \in MentionNames : Cardinality(LookupsOf(name)) = 1
    /\ mOut.out = Rewritten(mText, 1)

-----------------------------------------------------------------------------
(* The request log and the slices Requests() hands out                      *)

\* entries of the slice the caller wrote over
Scribbled(k) == {i \in DOMAIN held[k].elems : held[k].elems[i] = Scribble}

\* C28: the request log only grows at its end, whatever a caller does to a
\* slice Requests() gave it; a slice is a prefix of the log from the moment it
\* is returned, and of two slices the one returned earlier is a prefix of the
\* one returned later.
RequestLogAppendOnly ==
    /\ [][IsPrefix(requests, requests')]_vars
    /\ [](\A k \in DOMAIN snaps : IsPrefix(snaps[k], requests))
    /\ [](\A k \in DOMAIN snaps : \A l \in DOMAIN snaps :
              k < l => IsPrefix(snaps[k], snaps[l]))

\* Requests() was called twice with a request recorded in between, and the
\* caller wrote over an entry of the first slice before the second call ended
RequestLogAppendOnlyWitness ==
    /\ Len(snaps) = 2
    /\ Len(snaps[1]) >= 1
    /\ Len(snaps[1]) < Len(snaps[2])
    /\ Scribbled(1) # {}
    /\ Len(requests) = NumHandlers

====
